---- MODULE Spec2Model ----
(***************************************************************************)
(* Pending-edit tracking of TableData                                      *)
(* (src/components/business_components/tables/table_data/table_data.rs):   *)
(* the Snapshot (table_inserted_data), the Pending Edit Log                *)
(* (table_data_change_events), the Index Translator                        *)
(* (current_to_initial_row_indexes), the three edit calls and the commit   *)
(* (update_table_data followed by set_table_data).                         *)
(*                                                                         *)
(* Cell values are the strings of the code; the id column holds numerals,  *)
(* written here as naturals so that the Repository can order rows by them. *)
(* Positions in Rust vectors are 0-based; a TLA+ sequence holds the        *)
(* element of position p at p + 1.                                         *)
(***************************************************************************)
EXTENDS Integers, Sequences, FiniteSets, TLC

\* ------------------------------------------------------------------ bounds

\* Rows of the table when the session starts.
MaxRows == 3

\* Edit calls (insert, modify, delete) issued in one run.
MaxEdits == 2

\* Edit calls made on one Snapshot when the session only edits.
MaxCalls == 4

\* Edit calls made in the session whose table another task deletes.
MaxCatalogEdits == 1

\* The columns a form holds at most, and the tasks of HomeUI in flight at once.
MaxColumns == 1

MaxHomeTasks == 1

\* ------------------------------------------------------- the table's schema

TableName == "users"

\* default_table_in(): columns id INTEGER (primary key) and name TEXT.
ColumnNames == <<"id", "name">>

DataTypes == <<"INTEGER", "TEXT">>

\* The tables given to create_table: the table of the session, with the
\* columns above, and the table test_add_table adds.
UsersTableIn ==
    [table_name |-> TableName,
     columns |-> [k \in 1..Len(ColumnNames) |->
                     [name |-> ColumnNames[k], datatype |-> DataTypes[k]]]]

ProductsTableIn ==
    [table_name |-> "products",
     columns |-> <<[name |-> "product_name", datatype |-> "TEXT"]>>]

TableInputs == {UsersTableIn, ProductsTableIn}

\* The BTableGeneral of a table: its name, its column names and their types
\* as two parallel lists.
create_btable_general(table_in) ==
    [table_name |-> table_in.table_name,
     column_names |-> [k \in 1..Len(table_in.columns) |-> table_in.columns[k].name],
     data_types |-> [k \in 1..Len(table_in.columns) |-> table_in.columns[k].datatype]]

\* The Catalog's answer to get_primary_key_column_names for the table.
CatalogPrimaryKey == <<"id">>

\* Original names of the rows of the initial table, by position.
NameList == <<"a", "b", "c", "d", "e", "f">>

\* The table with n rows: ids 1..n.
InitTable(n) == [k \in 1..n |-> <<k, NameList[k]>>]

\* The four rows of test_update_table_data.
ScenarioTable == <<<<1, "Alice">>, <<2, "Bob">>, <<3, "Charlie">>, <<4, "Jacob">>>>

\* ------------------------------------------------------------ small helpers

Range(s) == {s[k] : k \in 1..Len(s)}

\* Iterator::position, with None as 0: the least of the (1-based) positions
\* whose element passes the test.
Position(passing) ==
    IF passing = {} THEN 0 ELSE CHOOSE k \in passing : \A j \in passing : k <= j

\* Vec::remove(p) for the 1-based position p.
RemoveAt(s, p) == [k \in 1..(Len(s) - 1) |-> IF k < p THEN s[k] ELSE s[k + 1]]

\* HashMap::insert and HashMap::remove on a map held as a function.
MapInsert(m, k, v) == [x \in (DOMAIN m) \cup {k} |-> IF x = k THEN v ELSE m[x]]

MapRemove(m, k) == [x \in (DOMAIN m) \ {k} |-> m[x]]

EmptyMap == [x \in {} |-> 0]

\* 1-based position of a column name in ColumnNames (0 when absent).
ColumnIndex(column_name) ==
    Position({k \in 1..Len(ColumnNames) : ColumnNames[k] = column_name})

\* ------------------------------------------------------------------- events

NoSnapshot == [loaded |-> FALSE, table_name |-> "", rows |-> <<>>]

SnapshotOf(table_name, rows) == [loaded |-> TRUE, table_name |-> table_name, rows |-> rows]

InsertRow(values) ==
    [kind |-> "InsertRow", values |-> values, conditions |-> <<>>, column_values |-> EmptyMap]

ModifyRowColumnValue(conditions, column_values) ==
    [kind |-> "ModifyRowColumnValue", values |-> <<>>, conditions |-> conditions,
     column_values |-> column_values]

DeleteRow(conditions) ==
    [kind |-> "DeleteRow", values |-> <<>>, conditions |-> conditions, column_values |-> EmptyMap]

CountKind(events, kind) == Cardinality({k \in 1..Len(events) : events[k].kind = kind})

\* --------------------------------------------- the code's helper functions

\* A variant that keeps every column of the row, primary key or not.
ConditionsOfEveryColumn(row, primary_key_column_names) ==
    [k \in 1..Len(ColumnNames) |-> [column_name |-> ColumnNames[k],
                                    data_type |-> DataTypes[k],
                                    value |-> row[k]]]

\* A variant that reads the Snapshot at the current index, untranslated.
UntranslatedRowIndex(row_index, indexes) == row_index

\* get_primary_key_conditions: the translator entry of row_index (unwrap: a
\* missing entry panics), then the primary-key cells of the Snapshot row at
\* that initial index (indexing past the rows panics).
PrimaryKeyConditionsOfRow(row, primary_key_column_names) ==
    LET keep == {k \in 1..Len(ColumnNames) : ColumnNames[k] \in Range(primary_key_column_names)}
        Pick[k \in 0..Len(ColumnNames)] ==
            IF k = 0 THEN <<>>
            ELSE IF k \in keep
                 THEN Append(Pick[k - 1], [column_name |-> ColumnNames[k],
                                            data_type |-> DataTypes[k],
                                            value |-> row[k]])
                 ELSE Pick[k - 1]
    IN  Pick[Len(ColumnNames)]

AdjustedRowIndex(row_index, indexes) == indexes[row_index]

get_primary_key_conditions(row_index, snapshot, primary_key_column_names, indexes) ==
    IF row_index \notin DOMAIN indexes
    THEN [panic |-> TRUE, conditions |-> <<>>]
    ELSE IF AdjustedRowIndex(row_index, indexes) >= Len(snapshot.rows)
         THEN [panic |-> TRUE, conditions |-> <<>>]
         ELSE [panic |-> FALSE,
               conditions |-> PrimaryKeyConditionsOfRow(
                   snapshot.rows[AdjustedRowIndex(row_index, indexes) + 1],
                   primary_key_column_names)]

\* rows.len() - delete_row_event_count is an unsigned subtraction: it
\* underflows when the log holds more DeleteRow events than the Snapshot has
\* rows.
InsertIndexUnderflows(events, snapshot) == CountKind(events, "DeleteRow") > Len(snapshot.rows)

\* The positions of the InsertRow events, in log order.
InsertEventPositions(events) == SelectSeq([k \in 1..Len(events) |-> k],
                                          LAMBDA k : events[k].kind = "InsertRow")

\* A variant that takes the inserts to start at rows.len(), whatever the
\* number of DeleteRow events.
InsertEventPastSnapshotRows(events, snapshot, row_index, wraps) ==
    LET base == Len(snapshot.rows)
        inserts == InsertEventPositions(events)
    IN  IF row_index < base \/ row_index - base + 1 > Len(inserts)
        THEN [panic |-> FALSE, index |-> 0]
        ELSE [panic |-> FALSE, index |-> inserts[row_index - base + 1]]

\* find_existing_row_insert_event: the position of the n-th InsertRow event,
\* n = row_index - (rows.len() - D); 0 stands for None. On underflow a build
\* with overflow checks panics and a build without wraps to a huge value, of
\* which checked_sub gives None: wraps tells which.
find_existing_row_insert_event(events, snapshot, row_index, wraps) ==
    IF InsertIndexUnderflows(events, snapshot)
    THEN [panic |-> ~wraps, index |-> 0]
    ELSE LET base == Len(snapshot.rows) - CountKind(events, "DeleteRow")
             inserts == InsertEventPositions(events)
         IN  IF row_index < base THEN [panic |-> FALSE, index |-> 0]
             ELSE IF row_index - base + 1 <= Len(inserts)
                  THEN [panic |-> FALSE, index |-> inserts[row_index - base + 1]]
                  ELSE [panic |-> FALSE, index |-> 0]

\* find_existing_modify_row_event: the first ModifyRowColumnValue event whose
\* conditions equal the row's primary-key conditions.
find_existing_modify_row_event(events, snapshot, primary_key_column_names, indexes, row_index) ==
    LET pk == get_primary_key_conditions(row_index, snapshot, primary_key_column_names, indexes)
    IN  IF pk.panic THEN [panic |-> TRUE, index |-> 0]
        ELSE [panic |-> FALSE,
              index |-> Position({k \in 1..Len(events) :
                                     /\ events[k].kind = "ModifyRowColumnValue"
                                     /\ events[k].conditions = pk.conditions})]

\* The value update_modify_row_event compares the new value with:
\* table_inserted_data.rows[row_index][column_index], row_index being the
\* current index the caller passed.
OriginalValue(snapshot, row_index, column_name) ==
    snapshot.rows[row_index + 1][ColumnIndex(column_name)]

\* update_modify_row_event on the event at event_index (1-based).
update_modify_row_event(events, snapshot, row_index, event_index, column_name, new_value, data_type) ==
    LET column_values == events[event_index].column_values
    IN  IF column_name \in DOMAIN column_values
        THEN IF new_value = OriginalValue(snapshot, row_index, column_name)
             THEN IF DOMAIN column_values = {column_name}
                  THEN RemoveAt(events, event_index)
                  ELSE [events EXCEPT ![event_index].column_values =
                                          MapRemove(column_values, column_name)]
             ELSE [events EXCEPT ![event_index].column_values =
                                     MapInsert(column_values, column_name,
                                               <<column_values[column_name][1], new_value>>)]
        ELSE [events EXCEPT ![event_index].column_values =
                                MapInsert(column_values, column_name, <<data_type, new_value>>)]

\* update_existing_insert_row_event: the InsertRow's value of the column is
\* overwritten; zip stops at the shorter of the two lists.
update_existing_insert_row_event(event, column_name, new_value) ==
    [event EXCEPT !.values =
        [k \in 1..(IF Len(ColumnNames) < Len(event.values)
                   THEN Len(ColumnNames) ELSE Len(event.values)) |->
            IF ColumnNames[k] = column_name THEN new_value ELSE event.values[k]]]

\* The keys of the translator greater than row_index, highest first
\* (keys_to_update after sort_by(|a, b| b.cmp(a))).
RECURSIVE KeysDescending(_)
KeysDescending(keys) ==
    IF keys = {} THEN <<>>
    ELSE LET top == CHOOSE k \in keys : \A j \in keys : j <= k
         IN  <<top>> \o KeysDescending(keys \ {top})

keys_to_update(indexes, row_index) ==
    KeysDescending({k \in DOMAIN indexes : k > row_index})

\* The loop of add_delete_row_event over keys_to_update: each key's entry is
\* read from the map as it is at that iteration and written at key - 1; only
\* the first iteration (iter_index == 0) removes its key.
RECURSIVE ShiftLoop(_, _, _)
ShiftLoop(indexes, keys, iter_index) ==
    IF iter_index > Len(keys) THEN indexes
    ELSE LET current_row_index == keys[iter_index]
             initial_row_index == indexes[current_row_index]
             inserted == MapInsert(indexes, current_row_index - 1, initial_row_index)
             next == IF iter_index = 1 THEN MapRemove(inserted, current_row_index)
                     ELSE inserted
         IN  ShiftLoop(next, keys, iter_index + 1)

ShiftIndexes(indexes, row_index) == ShiftLoop(indexes, keys_to_update(indexes, row_index), 1)

\* ------------------------------------------------------- the edit operations
\* Each returns the log (and translator) the call leaves, whether it panicked,
\* and the branch it returned from.

\* add_insert_row_event: unwrap of the Snapshot, then push.
add_insert_row_event(events, snapshot, values) ==
    IF ~snapshot.loaded
    THEN [events |-> events, panic |-> TRUE, path |-> "no_snapshot"]
    ELSE [events |-> Append(events, InsertRow(values)), panic |-> FALSE, path |-> "appended"]

\* add_modify_row_column_value_event after the Snapshot was cloned: snapshot
\* is the clone.
add_modify_row_column_value_event(events, snapshot, primary_key_column_names, indexes, row_index, column_name, new_value, wraps) ==
    LET ins == find_existing_row_insert_event(events, snapshot, row_index, wraps)
        existing == find_existing_modify_row_event(events, snapshot, primary_key_column_names,
                                                   indexes, row_index)
        pk == get_primary_key_conditions(row_index, snapshot, primary_key_column_names, indexes)
    IN  IF ins.panic
        THEN [events |-> events, panic |-> TRUE, path |-> "underflow"]
        ELSE IF ins.index # 0
        THEN [events |-> [events EXCEPT ![ins.index] =
                              update_existing_insert_row_event(events[ins.index],
                                                               column_name, new_value)],
              panic |-> FALSE, path |-> "insert_event"]
        ELSE IF row_index >= Len(snapshot.rows)
        THEN [events |-> events, panic |-> FALSE, path |-> "out_of_range"]
        ELSE IF ColumnIndex(column_name) = 0
        THEN [events |-> events, panic |-> TRUE, path |-> "no_column"]
        ELSE IF existing.panic
        THEN [events |-> events, panic |-> TRUE, path |-> "no_translation"]
        ELSE IF existing.index # 0
        THEN [events |-> update_modify_row_event(events, snapshot, row_index, existing.index,
                                                 column_name, new_value,
                                                 DataTypes[ColumnIndex(column_name)]),
              panic |-> FALSE, path |-> "merged"]
        ELSE [events |-> Append(events, ModifyRowColumnValue(pk.conditions,
                                   MapInsert(EmptyMap, column_name,
                                             <<DataTypes[ColumnIndex(column_name)], new_value>>))),
              panic |-> FALSE, path |-> "new_event"]

\* A variant that shifts the translator also when the call cancels an
\* uncommitted insert.
DeleteShiftingOnCancel(events, snapshot, primary_key_column_names, indexes, row_index, wraps) ==
    LET ins == IF snapshot.loaded
               THEN find_existing_row_insert_event(events, snapshot, row_index, wraps)
               ELSE [panic |-> TRUE, index |-> 0]
        pk == get_primary_key_conditions(row_index, snapshot, primary_key_column_names, indexes)
    IN  IF ~snapshot.loaded
        THEN [events |-> events, indexes |-> indexes, panic |-> TRUE, path |-> "no_snapshot"]
        ELSE IF ins.panic
        THEN [events |-> events, indexes |-> indexes, panic |-> TRUE, path |-> "underflow"]
        ELSE IF ins.index # 0
        THEN [events |-> RemoveAt(events, ins.index), indexes |-> ShiftIndexes(indexes, 0),
              panic |-> FALSE, path |-> "insert_event"]
        ELSE IF row_index >= Len(snapshot.rows)
        THEN [events |-> events, indexes |-> indexes, panic |-> FALSE, path |-> "out_of_range"]
        ELSE IF pk.panic
        THEN [events |-> events, indexes |-> indexes, panic |-> TRUE, path |-> "no_translation"]
        ELSE [events |-> Append(events, DeleteRow(pk.conditions)),
              indexes |-> ShiftIndexes(indexes, row_index),
              panic |-> FALSE, path |-> "deleted"]

\* add_delete_row_event.
add_delete_row_event(events, snapshot, primary_key_column_names, indexes, row_index, wraps) ==
    LET ins == IF snapshot.loaded
               THEN find_existing_row_insert_event(events, snapshot, row_index, wraps)
               ELSE [panic |-> TRUE, index |-> 0]
        pk == get_primary_key_conditions(row_index, snapshot, primary_key_column_names, indexes)
    IN  IF ~snapshot.loaded
        THEN [events |-> events, indexes |-> indexes, panic |-> TRUE, path |-> "no_snapshot"]
        ELSE IF ins.panic
        THEN [events |-> events, indexes |-> indexes, panic |-> TRUE, path |-> "underflow"]
        ELSE IF ins.index # 0
        THEN [events |-> RemoveAt(events, ins.index), indexes |-> indexes,
              panic |-> FALSE, path |-> "insert_event"]
        ELSE IF row_index >= Len(snapshot.rows)
        THEN [events |-> events, indexes |-> indexes, panic |-> FALSE, path |-> "out_of_range"]
        ELSE IF pk.panic
        THEN [events |-> events, indexes |-> indexes, panic |-> TRUE, path |-> "no_translation"]
        ELSE [events |-> Append(events, DeleteRow(pk.conditions)),
              indexes |-> ShiftIndexes(indexes, row_index),
              panic |-> FALSE, path |-> "deleted"]

\* The branches that lock the translator (through get_primary_key_conditions
\* or the shift).
TranslatorPaths == {"no_translation", "merged", "new_event", "deleted"}

\* ------------------------------------------------------------ the Repository
\* The Repository is a collaborator whose code is not part of these sources:
\* it is modelled from its interface. The table is a set of rows with unique
\* primary-key values; a write that would break uniqueness fails, and any
\* write may fail for a reason of the storage's own.

IdOf(row) == row[ColumnIndex("id")]

UniqueIds(rows) == \A r1, r2 \in rows : IdOf(r1) = IdOf(r2) => r1 = r2

Matches(row, conditions) ==
    \A k \in 1..Len(conditions) :
        row[ColumnIndex(conditions[k].column_name)] = conditions[k].value

Updated(row, column_values) ==
    [k \in 1..Len(row) |-> IF ColumnNames[k] \in DOMAIN column_values
                           THEN column_values[ColumnNames[k]][2] ELSE row[k]]

\* One statement: insert_row, update_row or delete_row.
ApplyEvent(rows, e) ==
    IF e.kind = "InsertRow"
    THEN IF \E r \in rows : IdOf(r) = IdOf(e.values)
         THEN [ok |-> FALSE, rows |-> rows]
         ELSE [ok |-> TRUE, rows |-> rows \cup {e.values}]
    ELSE IF e.kind = "ModifyRowColumnValue"
    THEN LET hit == {r \in rows : Matches(r, e.conditions)}
             new == {Updated(r, e.column_values) : r \in hit}
             result == (rows \ hit) \cup new
         IN  IF Cardinality(result) = Cardinality(rows) /\ UniqueIds(result)
             THEN [ok |-> TRUE, rows |-> result]
             ELSE [ok |-> FALSE, rows |-> rows]
    ELSE [ok |-> TRUE, rows |-> {r \in rows : ~Matches(r, e.conditions)}]

\* The order the batch is applied in: inserts, then modifies, then deletes.
BatchOrder(events) ==
    SelectSeq(events, LAMBDA e : e.kind = "InsertRow")
    \o SelectSeq(events, LAMBDA e : e.kind = "ModifyRowColumnValue")
    \o SelectSeq(events, LAMBDA e : e.kind = "DeleteRow")

\* update_table_data of the Repository: the statements in order; the first
\* failure (the statement at fail_at, or a uniqueness violation) aborts the
\* rest, what was applied before it stays applied.
RECURSIVE ApplyBatch(_, _, _, _)
ApplyBatch(rows, batch, k, fail_at) ==
    IF k > Len(batch) THEN [failed |-> FALSE, rows |-> rows]
    ELSE IF k = fail_at THEN [failed |-> TRUE, rows |-> rows]
    ELSE LET r == ApplyEvent(rows, batch[k])
         IN  IF r.ok THEN ApplyBatch(r.rows, batch, k + 1, fail_at)
             ELSE [failed |-> TRUE, rows |-> rows]

RepositoryUpdateTableData(rows, events, fail_at) == ApplyBatch(rows, BatchOrder(events), 1, fail_at)

\* get_table_data_rows: the rows ordered by the primary-key column.
RECURSIVE SortById(_)
SortById(rows) ==
    IF rows = {} THEN <<>>
    ELSE LET first == CHOOSE r \in rows : \A q \in rows : IdOf(r) <= IdOf(q)
         IN  <<first>> \o SortById(rows \ {first})

RepositoryGetTableDataRows(rows) == SortById(rows)

\* -------------------------------------------------------------------- state

VARIABLES
    storage,                         \* the table's rows in the backing store
    tables_general_info,             \* the BTableGeneral of the tables the Catalog list holds
    table_inserted_data,             \* the Snapshot (NoSnapshot for None)
    table_data_change_events,        \* the Pending Edit Log
    primary_key_column_names,
    current_to_initial_row_indexes,  \* the Index Translator
    panicked,                        \* a call has panicked: the session is over
    modify_call,                     \* the modify that has cloned the Snapshot and not yet returned
    task,                            \* the asynchronous open or commit in flight and its locals
    outcome,                         \* what the last commit did (kept for the properties)
    displayed,                       \* the rows as a user editing by position expects them
    nedits,
    script_pos,                      \* how far the calls so far follow Script
    second,                          \* a commit requested while the commit of task is in flight
    lock_calls,                      \* per thread of control: the call it runs, seen as lock steps
    repository_tables,               \* the tables the backing store holds
    table_calls,                     \* the calls of Tables in progress
    home_ui,                         \* the HomeUI component
    home_tasks,                      \* the tasks HomeUI dispatched whose message is not yet handled
    create_table_form                \* the CreateTableFormUI component

vars == <<storage, tables_general_info, table_inserted_data, table_data_change_events,
          primary_key_column_names, current_to_initial_row_indexes, panicked, modify_call,
          task, outcome, displayed, nedits, script_pos, second, lock_calls,
          repository_tables, table_calls, home_ui, home_tasks, create_table_form>>

\* The components of the user interface.
uiVars == <<home_ui, home_tasks, create_table_form>>

\* What the calls on the session leave alone: the state of the operations
\* that run beside them.
otherVars == <<second, lock_calls, repository_tables, table_calls, uiVars>>

\* The session as the calls above see it.
dataVars == <<storage, tables_general_info, table_inserted_data, table_data_change_events,
              primary_key_column_names, current_to_initial_row_indexes, panicked, modify_call,
              task, outcome, displayed, nedits, script_pos>>

sessionVars == <<table_inserted_data, table_data_change_events, primary_key_column_names,
                 current_to_initial_row_indexes>>

NoModifyCall == [active |-> FALSE, row_index |-> 0, column_name |-> "", new_value |-> <<>>,
                 snapshot |-> NoSnapshot]

IdleTask == [pc |-> "idle", kind |-> "none", table_name |-> "", events |-> <<>>,
             primary_key |-> <<>>, rows |-> <<>>]

IdleSecond == [pc |-> "idle", table_name |-> "", events |-> <<>>, primary_key |-> <<>>,
               rows |-> <<>>]

NoOutcome == [finished |-> "none", write_failed |-> FALSE, edits |-> "none", added |-> <<>>,
              events |-> <<>>, reference |-> <<>>, reference_valid |-> FALSE,
              returned |-> "nothing"]

\* What update_table_data and set_table_data hand back to their caller: both
\* are declared without a return type, so the unit value.
UnitValue == "()"


\* The reference list of a fresh Snapshot: every row at its initial index.
DisplayedOf(rows) == [k \in 1..Len(rows) |-> [origin |-> k - 1, values |-> rows[k]]]

\* Snapshot rows minus deleted rows plus pending inserts.
DeletedConditions(events) ==
    {events[k].conditions : k \in {j \in 1..Len(events) : events[j].kind = "DeleteRow"}}

DisplayedCount(events, snapshot) ==
    Len(snapshot.rows) - Cardinality(DeletedConditions(events)) + CountKind(events, "InsertRow")

\* The reference semantics of the three calls on the displayed list. The list
\* stays valid while every call names a displayed position and is made with
\* no open or commit in flight.
DisplayedInsert(d, values) ==
    [d EXCEPT !.rows = Append(d.rows, [origin |-> -1, values |-> values]),
              !.valid = d.valid /\ task.pc = "idle"]

DisplayedModify(d, row_index, column_name, new_value) ==
    IF row_index < Len(d.rows)
    THEN [d EXCEPT !.rows[row_index + 1].values[ColumnIndex(column_name)] = new_value,
                   !.valid = d.valid /\ task.pc = "idle"]
    ELSE [d EXCEPT !.valid = FALSE]

DisplayedDelete(d, row_index) ==
    IF row_index < Len(d.rows)
    THEN [d EXCEPT !.rows = RemoveAt(d.rows, row_index + 1),
                   !.valid = d.valid /\ task.pc = "idle"]
    ELSE [d EXCEPT !.valid = FALSE]

\* ----------------------------------------------------------------- the calls

\* The calls of test_update_table_data, in order, and then the commit.
Script == <<
    [op |-> "modify", row_index |-> 0, column_name |-> "id", value |-> 5],
    [op |-> "modify", row_index |-> 3, column_name |-> "name", value |-> "Liam"],
    [op |-> "modify", row_index |-> 3, column_name |-> "id", value |-> 8],
    [op |-> "delete", row_index |-> 1, column_name |-> "", value |-> <<>>],
    [op |-> "insert", row_index |-> 0, column_name |-> "", value |-> <<6, "">>],
    [op |-> "modify", row_index |-> 4, column_name |-> "name", value |-> "John"],
    [op |-> "modify", row_index |-> 2, column_name |-> "name", value |-> "Daniel"],
    [op |-> "commit", row_index |-> 0, column_name |-> "", value |-> <<>>] >>

OffScript == 0 - 1

\* The script position after one more call.
Follow(pos, op, row_index, column_name, value) ==
    IF pos = OffScript \/ pos >= Len(Script) THEN OffScript
    ELSE IF /\ Script[pos + 1].op = op
            /\ Script[pos + 1].row_index = row_index
            /\ Script[pos + 1].column_name = column_name
            /\ Script[pos + 1].value = value
         THEN pos + 1
         ELSE OffScript

\* The current indices a call may name: every displayed position of the
\* initial table and of its inserts, and positions past the end.
RowIndexes == 0..MaxRows

NewValues(column_name) == IF column_name = "id" THEN {9} ELSE {"a", "x"}

InsertedRows == {<<9, "x">>}

ScenarioCalls == {Script[k] : k \in 1..(Len(Script) - 1)}

\* ------------------------------------------------------------------ actions

\* While set_table_data holds the translator's lock (from its acquisition to
\* the end of the function) a call that needs the translator cannot return.
TranslatorLocked == task.pc \in {"snapshot_set", "log_cleared"}

WrapChoices(events, snapshot) ==
    IF InsertIndexUnderflows(events, snapshot) THEN BOOLEAN ELSE {TRUE}

\* The branches that append an event to the log.
AppendingPaths == {"appended", "new_event", "deleted"}

\* What every returning edit call records: r is what the call returned with.
\* outcome counts the edits since the last capture (none, one, more) and keeps
\* the event the first of them appended while the commit was in flight.
Returned(op, row_index, column_name, value, r) ==
    /\ nedits' = nedits + 1
    /\ panicked' = r.panic
    /\ script_pos' = Follow(script_pos, op, row_index, column_name, value)
    /\ outcome' = [outcome EXCEPT
           !.edits = IF outcome.edits = "none" THEN "one" ELSE "more",
           !.added = IF outcome.edits = "none" /\ task.pc # "idle" /\ task.kind = "commit"
                        /\ r.path \in AppendingPaths
                     THEN <<r.events[Len(r.events)]>> ELSE <<>>]

\* insert(values): add_insert_row_event.
Insert(values) ==
    /\ ~panicked
    /\ ~modify_call.active
    /\ LET r == add_insert_row_event(table_data_change_events, table_inserted_data, values)
       IN  /\ table_data_change_events' = r.events
           /\ displayed' = IF r.panic THEN displayed ELSE DisplayedInsert(displayed, values)
           /\ Returned("insert", 0, "", values, r)
    /\ UNCHANGED otherVars
    /\ UNCHANGED <<storage, tables_general_info, table_inserted_data, primary_key_column_names,
                   current_to_initial_row_indexes, modify_call, task>>

\* What add_modify_row_column_value_event does after it cloned snapshot.
ModifyReturn(snapshot, row_index, column_name, new_value) ==
    \E wraps \in WrapChoices(table_data_change_events, snapshot) :
        LET r == add_modify_row_column_value_event(
                     table_data_change_events, snapshot, primary_key_column_names,
                     current_to_initial_row_indexes, row_index, column_name, new_value, wraps)
        IN  /\ r.path \in TranslatorPaths => ~TranslatorLocked
            /\ table_data_change_events' = r.events
            /\ displayed' = IF r.panic THEN displayed
                            ELSE DisplayedModify(displayed, row_index, column_name, new_value)
            /\ Returned("modify", row_index, column_name, new_value, r)

\* modify(row_index, column_name, new_value) with no replacement of the
\* Snapshot between its clone and its return: the clone is the Snapshot
\* (unwrap panics when there is none).
Modify(row_index, column_name, new_value) ==
    /\ ~panicked
    /\ ~modify_call.active
    /\ IF table_inserted_data.loaded
       THEN ModifyReturn(table_inserted_data, row_index, column_name, new_value)
       ELSE /\ Returned("modify", row_index, column_name, new_value,
                        [events |-> table_data_change_events, panic |-> TRUE,
                         path |-> "no_snapshot"])
            /\ UNCHANGED <<table_data_change_events, displayed>>
    /\ UNCHANGED otherVars
    /\ UNCHANGED <<storage, tables_general_info, table_inserted_data, primary_key_column_names,
                   current_to_initial_row_indexes, modify_call, task>>

\* modify, first part: the Snapshot is locked, cloned and unlocked. The clone
\* can differ from the Snapshot at the return only when set_table_data
\* replaces the Snapshot in between, which it does next when its rows are
\* fetched: the call is split there.
ModifyBegin(row_index, column_name, new_value) ==
    /\ ~panicked
    /\ ~modify_call.active
    /\ table_inserted_data.loaded
    /\ task.pc = "fetched"
    /\ modify_call' = [active |-> TRUE, row_index |-> row_index, column_name |-> column_name,
                       new_value |-> new_value, snapshot |-> table_inserted_data]
    /\ UNCHANGED otherVars
    /\ UNCHANGED <<storage, tables_general_info, sessionVars, panicked, task, outcome,
                   displayed, nedits, script_pos>>

\* modify, second part, after set_table_data replaced the Snapshot: the log
\* is locked and the call runs to its return with its clone.
ModifyEnd ==
    /\ ~panicked
    /\ modify_call.active
    /\ task.pc # "fetched"
    /\ ModifyReturn(modify_call.snapshot, modify_call.row_index, modify_call.column_name,
                    modify_call.new_value)
    /\ modify_call' = NoModifyCall
    /\ UNCHANGED otherVars
    /\ UNCHANGED <<storage, tables_general_info, table_inserted_data, primary_key_column_names,
                   current_to_initial_row_indexes, task>>

\* delete(row_index): add_delete_row_event, under the Snapshot's and the
\* log's locks from start to end.
Delete(row_index) ==
    /\ ~panicked
    /\ ~modify_call.active
    /\ \E wraps \in WrapChoices(table_data_change_events, table_inserted_data) :
         LET r == add_delete_row_event(table_data_change_events, table_inserted_data,
                                       primary_key_column_names,
                                       current_to_initial_row_indexes, row_index, wraps)
         IN  /\ r.path \in TranslatorPaths => ~TranslatorLocked
             /\ table_data_change_events' = r.events
             /\ current_to_initial_row_indexes' = r.indexes
             /\ displayed' = IF r.panic THEN displayed ELSE DisplayedDelete(displayed, row_index)
             /\ Returned("delete", row_index, "", <<>>, r)
    /\ UNCHANGED otherVars
    /\ UNCHANGED <<storage, tables_general_info, table_inserted_data, primary_key_column_names,
                   modify_call, task>>

\* The table is found in tables_general_info by its name.
Listed(table_name) == \E info \in tables_general_info : info.table_name = table_name

\* set_table_data locks tables_general_info in its first line and holds the
\* lock to its end: two calls of set_table_data never overlap.
TablesInfoLockedByTask == task.pc \in {"fetched", "snapshot_set", "log_cleared"}

TablesInfoLockedBySecond == second.pc = "fetched"

\* set_general_tables_info holds the same lock from its first line to its
\* end.
TablesInfoLockedByTableCall == \E c \in DOMAIN table_calls : table_calls[c].pc = "fetched"

\* The store holds a table of that name: the calls of the Repository for a
\* table it does not hold return an error.
RepositoryHolds(table_name) == \E t \in repository_tables : t.table_name = table_name

\* A variant of set_table_data that does not look the table up in
\* tables_general_info before it fetches.
SetTableDataFetchUnlisted(kind, table_name) ==
    /\ ~TablesInfoLockedBySecond
    /\ ~TablesInfoLockedByTableCall
    /\ IF RepositoryHolds(table_name)
       THEN /\ task' = [pc |-> "fetched", kind |-> kind, table_name |-> table_name,
                        events |-> task.events, primary_key |-> CatalogPrimaryKey,
                        rows |-> RepositoryGetTableDataRows(storage)]
            /\ UNCHANGED <<outcome, panicked>>
       ELSE /\ task' = IdleTask
            /\ panicked' = TRUE
            /\ UNCHANGED outcome

\* set_table_data up to the fetch of the rows: the table is looked up in
\* tables_general_info, then the primary-key names and the rows are fetched.
\* A table that is not listed ends the call; a listed table that the store
\* no longer holds makes the fetch fail, and its unwrap panics.
SetTableDataFetch(kind, table_name) ==
    /\ ~TablesInfoLockedBySecond
    /\ ~TablesInfoLockedByTableCall
    /\ IF ~Listed(table_name)
       THEN /\ task' = IdleTask
            /\ outcome' = [outcome EXCEPT !.finished = kind, !.returned = UnitValue]
            /\ UNCHANGED panicked
       ELSE IF RepositoryHolds(table_name)
       THEN /\ task' = [pc |-> "fetched", kind |-> kind, table_name |-> table_name,
                        events |-> task.events, primary_key |-> CatalogPrimaryKey,
                        rows |-> RepositoryGetTableDataRows(storage)]
            /\ UNCHANGED <<outcome, panicked>>
       ELSE /\ task' = IdleTask
            /\ panicked' = TRUE
            /\ UNCHANGED outcome

\* open_table(name): set_table_data called for a table.
OpenTable ==
    /\ ~panicked
    /\ task.pc = "idle"
    /\ ~table_inserted_data.loaded
    /\ SetTableDataFetch("open", TableName)
    /\ UNCHANGED otherVars
    /\ UNCHANGED <<storage, tables_general_info, sessionVars, modify_call,
                   displayed, nedits, script_pos>>

\* A variant of the step below that captures the log whether a Snapshot is
\* loaded or not.
CommitCaptureWithoutSnapshot ==
    /\ ~panicked
    /\ task.pc = "idle"
    /\ script_pos' = Follow(script_pos, "commit", 0, "", <<>>)
    /\ task' = [IdleTask EXCEPT !.pc = "captured", !.kind = "commit",
                                !.table_name = table_inserted_data.table_name,
                                !.events = table_data_change_events]
    /\ outcome' = [finished |-> "none", write_failed |-> FALSE,
                   edits |-> "none", added |-> <<>>,
                   events |-> table_data_change_events,
                   reference |-> [k \in 1..Len(displayed.rows) |-> displayed.rows[k].values],
                   reference_valid |-> displayed.valid,
                   returned |-> "nothing"]
    /\ UNCHANGED otherVars
    /\ UNCHANGED <<storage, tables_general_info, sessionVars, panicked, modify_call, displayed,
                   nedits>>

\* update_table_data, first block: the table name and a clone of the log are
\* taken under the Snapshot's and the log's locks; without a Snapshot the
\* call returns.
CommitCapture ==
    /\ ~panicked
    /\ task.pc = "idle"
    /\ script_pos' = Follow(script_pos, "commit", 0, "", <<>>)
    /\ IF table_inserted_data.loaded
       THEN /\ task' = [IdleTask EXCEPT !.pc = "captured", !.kind = "commit",
                                        !.table_name = table_inserted_data.table_name,
                                        !.events = table_data_change_events]
            /\ outcome' = [finished |-> "none", write_failed |-> FALSE,
                           edits |-> "none", added |-> <<>>,
                           events |-> table_data_change_events,
                           reference |-> [k \in 1..Len(displayed.rows) |->
                                             displayed.rows[k].values],
                           reference_valid |-> displayed.valid,
                           returned |-> "nothing"]
       ELSE UNCHANGED <<task, outcome>>
    /\ UNCHANGED otherVars
    /\ UNCHANGED <<storage, tables_general_info, sessionVars, panicked, modify_call, displayed,
                   nedits>>

\* The statement of the batch the storage fails on its own account: none (0)
\* or the first.
FailureChoices(events) == {k \in {0, 1} : k <= Len(events)}

\* A variant of the step below that sends the log as it is at the time of
\* the write instead of the clone taken at the capture.
CommitWriteCurrentLog ==
    /\ ~panicked
    /\ task.pc = "captured"
    /\ \E fail_at \in FailureChoices(table_data_change_events) :
         LET r == RepositoryUpdateTableData(storage, table_data_change_events, fail_at)
         IN  /\ storage' = r.rows
             /\ outcome' = [outcome EXCEPT !.write_failed = r.failed]
    /\ task' = [task EXCEPT !.pc = "written"]
    /\ UNCHANGED otherVars
    /\ UNCHANGED <<tables_general_info, sessionVars, panicked, modify_call, displayed,
                   nedits, script_pos>>

\* update_table_data, second block: the Repository applies the captured
\* events; whatever it reports is dropped. For a table the store no longer
\* holds the call fails and writes nothing.
CommitWrite ==
    /\ ~panicked
    /\ task.pc = "captured"
    /\ IF RepositoryHolds(task.table_name)
       THEN \E fail_at \in FailureChoices(task.events) :
                LET r == RepositoryUpdateTableData(storage, task.events, fail_at)
                IN  /\ storage' = r.rows
                    /\ outcome' = [outcome EXCEPT !.write_failed = r.failed]
       ELSE /\ storage' = storage
            /\ outcome' = [outcome EXCEPT !.write_failed = TRUE]
    /\ task' = [task EXCEPT !.pc = "written"]
    /\ UNCHANGED otherVars
    /\ UNCHANGED <<tables_general_info, sessionVars, panicked, modify_call, displayed,
                   nedits, script_pos>>

\* update_table_data, last line: set_table_data(table_name).
CommitRefresh ==
    /\ ~panicked
    /\ task.pc = "written"
    /\ SetTableDataFetch("commit", task.table_name)
    /\ UNCHANGED otherVars
    /\ UNCHANGED <<storage, tables_general_info, sessionVars, modify_call,
                   displayed, nedits, script_pos>>

\* set_table_data: the translator is locked and set to the identity on the
\* fetched rows, then the Snapshot is replaced.
RefreshInstallSnapshot ==
    /\ ~panicked
    /\ task.pc = "fetched"
    /\ current_to_initial_row_indexes' = [k \in 0..(Len(task.rows) - 1) |-> k]
    /\ table_inserted_data' = SnapshotOf(task.table_name, task.rows)
    /\ displayed' = [rows |-> DisplayedOf(task.rows), valid |-> TRUE]
    /\ task' = [task EXCEPT !.pc = "snapshot_set"]
    /\ UNCHANGED otherVars
    /\ UNCHANGED <<storage, tables_general_info, table_data_change_events,
                   primary_key_column_names, panicked, modify_call, outcome, nedits, script_pos>>

\* A variant of the step below that leaves the log as it is.
RefreshKeepLog ==
    /\ ~panicked
    /\ task.pc = "snapshot_set"
    /\ task' = [task EXCEPT !.pc = "log_cleared"]
    /\ UNCHANGED otherVars
    /\ UNCHANGED <<storage, tables_general_info, sessionVars, panicked, modify_call, outcome,
                   displayed, nedits, script_pos>>

\* set_table_data: the log is replaced by an empty one.
RefreshClearLog ==
    /\ ~panicked
    /\ task.pc = "snapshot_set"
    /\ table_data_change_events' = <<>>
    /\ task' = [task EXCEPT !.pc = "log_cleared"]
    /\ UNCHANGED otherVars
    /\ UNCHANGED <<storage, tables_general_info, table_inserted_data, primary_key_column_names,
                   current_to_initial_row_indexes, panicked, modify_call, outcome,
                   displayed, nedits, script_pos>>

\* set_table_data: the primary-key names are replaced and the call returns,
\* unlocking the translator.
RefreshSetPrimaryKey ==
    /\ ~panicked
    /\ task.pc = "log_cleared"
    /\ primary_key_column_names' = task.primary_key
    /\ outcome' = [outcome EXCEPT !.finished = task.kind, !.returned = UnitValue]
    /\ task' = IdleTask
    /\ UNCHANGED otherVars
    /\ UNCHANGED <<storage, tables_general_info, table_inserted_data, table_data_change_events,
                   current_to_initial_row_indexes, panicked, modify_call, displayed,
                   nedits, script_pos>>

TaskStep ==
    \/ OpenTable
    \/ CommitCapture
    \/ CommitWrite
    \/ CommitRefresh
    \/ RefreshInstallSnapshot
    \/ RefreshClearLog
    \/ RefreshSetPrimaryKey

\* ------------------------------------------------- a second, overlapping commit

\* update_table_data called again while the commit of task has not returned:
\* the function tests nothing but the presence of a Snapshot, so the call
\* captures the table name and the log like the first.
SecondCommitCapture ==
    /\ ~panicked
    /\ task.kind = "commit"
    /\ task.pc # "idle"
    /\ second.pc = "idle"
    /\ table_inserted_data.loaded
    /\ second' = [IdleSecond EXCEPT !.pc = "captured",
                                    !.table_name = table_inserted_data.table_name,
                                    !.events = table_data_change_events]
    /\ UNCHANGED <<lock_calls, repository_tables, table_calls, uiVars>>
    /\ UNCHANGED <<storage, tables_general_info, sessionVars, panicked, modify_call, task,
                   outcome, displayed, nedits, script_pos>>

\* The second commit's batch is applied by the Repository.
SecondCommitWrite ==
    /\ ~panicked
    /\ second.pc = "captured"
    /\ \E fail_at \in FailureChoices(second.events) :
           storage' = RepositoryUpdateTableData(storage, second.events, fail_at).rows
    /\ second' = [second EXCEPT !.pc = "written"]
    /\ UNCHANGED <<lock_calls, repository_tables, table_calls, uiVars>>
    /\ UNCHANGED <<tables_general_info, sessionVars, panicked, modify_call, task, outcome,
                   displayed, nedits, script_pos>>

\* The second commit's set_table_data, once tables_general_info is unlocked:
\* lookup and fetches.
SecondCommitRefresh ==
    /\ ~panicked
    /\ second.pc = "written"
    /\ ~TablesInfoLockedByTask
    /\ second' = IF Listed(second.table_name)
                  THEN [second EXCEPT !.pc = "fetched", !.primary_key = CatalogPrimaryKey,
                                      !.rows = RepositoryGetTableDataRows(storage)]
                  ELSE IdleSecond
    /\ UNCHANGED <<lock_calls, repository_tables, table_calls, uiVars>>
    /\ UNCHANGED <<storage, tables_general_info, sessionVars, panicked, modify_call, task,
                   outcome, displayed, nedits, script_pos>>

\* The second commit's set_table_data, lines 381-405 in one step (how these
\* lines interleave with the edits is followed on the refresh of task).
SecondRefreshInstall ==
    /\ ~panicked
    /\ second.pc = "fetched"
    /\ current_to_initial_row_indexes' = [k \in 0..(Len(second.rows) - 1) |-> k]
    /\ table_inserted_data' = SnapshotOf(second.table_name, second.rows)
    /\ table_data_change_events' = <<>>
    /\ primary_key_column_names' = second.primary_key
    /\ displayed' = [rows |-> DisplayedOf(second.rows), valid |-> FALSE]
    /\ second' = IdleSecond
    /\ UNCHANGED <<lock_calls, repository_tables, table_calls, uiVars>>
    /\ UNCHANGED <<storage, tables_general_info, panicked, modify_call, task, outcome, nedits,
                   script_pos>>

SecondStep ==
    \/ SecondCommitCapture
    \/ SecondCommitWrite
    \/ SecondCommitRefresh
    \/ SecondRefreshInstall

\* ------------------------------------------------------- the calls as lock steps

\* The session's mutexes: tables_general_info, table_inserted_data (the
\* Snapshot), table_data_change_events (the log), primary_key_column_names
\* and current_to_initial_row_indexes (the translator).
LockNames == {"tables", "snapshot", "log", "pk", "translator"}

\* The thread the edits are called from (blocking_lock) and the executor that
\* runs the asynchronous calls (lock().await).
LockThreads == {"ui", "async"}

LockStep(l) == [step |-> "lock", name |-> l]

UnlockStep(l) == [step |-> "unlock", name |-> l]

\* A call of the Repository, awaited to its end.
IoStep(call) == [step |-> "io", name |-> call]

NoLockCall == [op |-> "none", todo |-> <<>>, held |-> {}]

\* get_primary_key_conditions: the primary-key names are locked to the end of
\* the function, the translator for the one statement that reads it.
GetPrimaryKeyConditionsLocks ==
    <<LockStep("pk"), LockStep("translator"), UnlockStep("translator"), UnlockStep("pk")>>

\* set_table_data for a listed table: tables_general_info is locked first,
\* the primary-key names and the rows are fetched, and the translator is
\* locked after the fetches; then the Snapshot, the log and the
\* primary-key names are each locked for one assignment; the translator's and
\* the table list's guards are dropped at the end.
SetTableDataLocks ==
    <<LockStep("tables"),
      IoStep("get_primary_key_column_names"), IoStep("get_table_data_rows"),
      LockStep("translator"),
      LockStep("snapshot"), UnlockStep("snapshot"),
      LockStep("log"), UnlockStep("log"),
      LockStep("pk"), UnlockStep("pk"),
      UnlockStep("translator"), UnlockStep("tables")>>

\* A variant that keeps the Snapshot's and the log's guards of the capture
\* until the Repository has applied the events.
UpdateTableDataHoldingLog ==
    <<LockStep("snapshot"), LockStep("log"), IoStep("update_table_data"),
      UnlockStep("log"), UnlockStep("snapshot")>>
    \o SetTableDataLocks

\* update_table_data: the Snapshot and the log are locked for the capture
\* and unlocked at the end of its block; then the Repository applies the
\* events, then set_table_data.
UpdateTableDataLocks ==
    <<LockStep("snapshot"), LockStep("log"), UnlockStep("log"), UnlockStep("snapshot"),
      IoStep("update_table_data")>>
    \o SetTableDataLocks

\* The calls each thread of control makes, by the path taken in the code.
LockOps(p) ==
    IF p = "ui"
    THEN {"reset", "insert", "modify_no_row", "modify_merged", "modify_new_event",
          "delete_no_row", "delete_row"}
    ELSE {"open", "open_unlisted", "commit"}

\* The lock and unlock steps of a call, in program order (guards are dropped
\* in the reverse order of their declaration).
LockSteps(op) ==
    CASE op = "reset" ->
             <<LockStep("snapshot"), LockStep("log"), LockStep("pk"), LockStep("translator"),
               UnlockStep("translator"), UnlockStep("pk"), UnlockStep("log"),
               UnlockStep("snapshot")>>
      [] op = "insert" ->
             <<LockStep("snapshot"), LockStep("log"), UnlockStep("log"), UnlockStep("snapshot")>>
      [] op = "modify_no_row" ->
             <<LockStep("snapshot"), UnlockStep("snapshot"), LockStep("log"), UnlockStep("log")>>
      [] op = "modify_merged" ->
             <<LockStep("snapshot"), UnlockStep("snapshot"), LockStep("log")>>
             \o GetPrimaryKeyConditionsLocks \o <<UnlockStep("log")>>
      [] op = "modify_new_event" ->
             <<LockStep("snapshot"), UnlockStep("snapshot"), LockStep("log")>>
             \o GetPrimaryKeyConditionsLocks \o GetPrimaryKeyConditionsLocks
             \o <<UnlockStep("log")>>
      [] op = "delete_no_row" ->
             <<LockStep("snapshot"), LockStep("log"), UnlockStep("log"), UnlockStep("snapshot")>>
      [] op = "delete_row" ->
             <<LockStep("snapshot"), LockStep("log")>> \o GetPrimaryKeyConditionsLocks
             \o <<LockStep("translator"), UnlockStep("translator"), UnlockStep("log"),
                  UnlockStep("snapshot")>>
      [] op = "open" -> SetTableDataLocks
      [] op = "open_unlisted" -> <<LockStep("tables"), UnlockStep("tables")>>
      [] op = "commit" -> UpdateTableDataLocks

LockHeldByOther(p, l) == \E q \in LockThreads \ {p} : l \in lock_calls[q].held

\* The call as it is after its first step.
AfterLockStep(call, held) ==
    IF Len(call.todo) = 1 THEN NoLockCall
    ELSE [call EXCEPT !.todo = Tail(call.todo), !.held = held]

\* A thread enters a call.
LockCallBegin(p, op) ==
    /\ lock_calls[p].op = "none"
    /\ lock_calls' = [lock_calls EXCEPT ![p] = [op |-> op, todo |-> LockSteps(op), held |-> {}]]
    /\ UNCHANGED <<dataVars, second, repository_tables, table_calls, uiVars>>

\* A thread gets the mutex it asks for, when no other thread holds it.
LockAcquire(p) ==
    /\ lock_calls[p].todo # <<>>
    /\ Head(lock_calls[p].todo).step = "lock"
    /\ ~LockHeldByOther(p, Head(lock_calls[p].todo).name)
    /\ lock_calls' = [lock_calls EXCEPT ![p] =
           AfterLockStep(@, @.held \cup {Head(@.todo).name})]
    /\ UNCHANGED <<dataVars, second, repository_tables, table_calls, uiVars>>

\* A guard is dropped; with the last one the call returns.
LockRelease(p) ==
    /\ lock_calls[p].todo # <<>>
    /\ Head(lock_calls[p].todo).step = "unlock"
    /\ lock_calls' = [lock_calls EXCEPT ![p] =
           AfterLockStep(@, @.held \ {Head(@.todo).name})]
    /\ UNCHANGED <<dataVars, second, repository_tables, table_calls, uiVars>>

\* A call of the Repository returns.
LockIo(p) ==
    /\ lock_calls[p].todo # <<>>
    /\ Head(lock_calls[p].todo).step = "io"
    /\ lock_calls' = [lock_calls EXCEPT ![p] = AfterLockStep(@, @.held)]
    /\ UNCHANGED <<dataVars, second, repository_tables, table_calls, uiVars>>

NextLocks ==
    \/ \E p \in LockThreads : \E op \in LockOps(p) : LockCallBegin(p, op)
    \/ \E p \in LockThreads : LockAcquire(p)
    \/ \E p \in LockThreads : LockRelease(p)
    \/ \E p \in LockThreads : LockIo(p)

\* ------------------------------------------------------- the calls of Tables

\* The tasks that call Tables at the same time.
TableCallers == {1, 2}

\* alone: no other call of Tables has been in progress since this one began.
NoTableCall == [op |-> "none", table_name |-> "", pc |-> "idle", fetched |-> {}, alone |-> TRUE]

\* The calls when caller c begins a call: the others are no longer alone.
TableCallBegun(c, op, table_name) ==
    [d \in TableCallers |->
        IF d = c
        THEN [op |-> op, table_name |-> table_name, pc |-> "changed", fetched |-> {},
              alone |-> \A e \in TableCallers : table_calls[e].pc = "idle"]
        ELSE [table_calls[d] EXCEPT !.alone = table_calls[d].pc = "idle"]]

TableNames(tables) == {t.table_name : t \in tables}

\* create_table adds the table; delete_table removes the table of that name.
RepositoryCreateTable(tables, table_in) == tables \cup {table_in}

RepositoryDeleteTable(tables, table_name) == {t \in tables : t.table_name # table_name}

\* get_general_tables_info, each table converted by BTableGeneral::to_table.
RepositoryGetGeneralTablesInfo(tables) == {create_btable_general(t) : t \in tables}

\* add_table, first line: the table, whose name the store does not hold yet,
\* is created.
AddTableCreate(c, table_in) ==
    /\ table_calls[c].pc = "idle"
    /\ table_in.table_name \notin TableNames(repository_tables)
    /\ repository_tables' = RepositoryCreateTable(repository_tables, table_in)
    /\ table_calls' = TableCallBegun(c, "add", table_in.table_name)
    /\ UNCHANGED <<dataVars, second, lock_calls, uiVars>>

\* delete_table, first line.
DeleteTableDelete(c, table_name) ==
    /\ table_calls[c].pc = "idle"
    /\ repository_tables' = RepositoryDeleteTable(repository_tables, table_name)
    /\ table_calls' = TableCallBegun(c, "delete", table_name)
    /\ UNCHANGED <<dataVars, second, lock_calls, uiVars>>

\* A variant of the step below that fetches without waiting for the lock of
\* tables_general_info.
SetGeneralTablesInfoFetchUnlocked(c) ==
    /\ table_calls[c].pc = "changed"
    /\ table_calls' = [table_calls EXCEPT ![c].pc = "fetched",
                           ![c].fetched = RepositoryGetGeneralTablesInfo(repository_tables)]
    /\ UNCHANGED <<dataVars, second, lock_calls, repository_tables, uiVars>>

\* set_general_tables_info, lines 40-41: tables_general_info is locked, then
\* the list of tables is fetched.
SetGeneralTablesInfoFetch(c) ==
    /\ table_calls[c].pc = "changed"
    /\ \A d \in TableCallers : table_calls[d].pc # "fetched"
    /\ ~TablesInfoLockedByTask
    /\ ~TablesInfoLockedBySecond
    /\ table_calls' = [table_calls EXCEPT ![c].pc = "fetched",
                           ![c].fetched = RepositoryGetGeneralTablesInfo(repository_tables)]
    /\ UNCHANGED <<dataVars, second, lock_calls, repository_tables, uiVars>>

\* A variant of the step below that leaves tables_general_info as it is.
SetGeneralTablesInfoKeep(c) ==
    /\ table_calls[c].pc = "fetched"
    /\ table_calls' = [table_calls EXCEPT ![c] = NoTableCall]
    /\ UNCHANGED <<dataVars, second, lock_calls, repository_tables, uiVars>>

\* set_general_tables_info, lines 42-47: the fetched list replaces
\* tables_general_info, the lock is dropped and the call returns.
SetGeneralTablesInfoAssign(c) ==
    /\ table_calls[c].pc = "fetched"
    /\ tables_general_info' = table_calls[c].fetched
    /\ table_calls' = [table_calls EXCEPT ![c] = NoTableCall]
    /\ UNCHANGED <<storage, sessionVars, panicked, modify_call, task, outcome, displayed,
                   nedits, script_pos, second, lock_calls, repository_tables, uiVars>>

NextTables ==
    \/ \E c \in TableCallers : \E table_in \in TableInputs : AddTableCreate(c, table_in)
    \/ \E c \in TableCallers : \E table_in \in TableInputs :
           DeleteTableDelete(c, table_in.table_name)
    \/ \E c \in TableCallers : SetGeneralTablesInfoFetch(c)
    \/ \E c \in TableCallers : SetGeneralTablesInfoAssign(c)

\* ------------------------------------------------------------------ HomeUI

\* BColumn::default() and BTableIn::default(): an unnamed TEXT column, and a
\* table with no name and no column.
BColumnDefault == [name |-> "", datatype |-> "TEXT"]

BTableInDefault == [table_name |-> "", columns |-> <<>>]

\* What the user types into the fields of the form of HomeUI.
TableFilterInputs == {"", "u"}

TableNameInputs == {"", "products"}

ColumnNameInputs == {"product_name"}

ColumnTypeInputs == {"INTEGER"}

\* The indexes (0-based, as in the messages) the form can send: those of the
\* columns it may hold and one past them.
ColumnIndexes == 0..MaxColumns

\* Home::new and HomeUI::new. An Option is held as a sequence: None is the
\* empty one and Some(x) is <<x>>.
HomeNew == [title |-> <<>>, tables |-> <<>>]

HomeUINew ==
    [home |-> HomeNew,
     table_filter |-> "",
     show_create_table_form |-> FALSE,
     create_table_input |-> BTableInDefault]

\* The slots of the tasks in flight, and a slot without a task.
HomeTaskIds == 1..MaxHomeTasks

NoHomeTask == [kind |-> "none"]

FreeHomeTaskId == Position({i \in HomeTaskIds : home_tasks[i].kind = "none"})

\* The fields of HomeUI that are the state of the user interface itself.
UIState(ui) ==
    [table_filter |-> ui.table_filter,
     show_create_table_form |-> ui.show_create_table_form,
     create_table_input |-> ui.create_table_input]

\* Home::initialize_component on a copy of the component.
HomeInitializeComponent(home) ==
    [title |-> <<"Home Component">>, tables |-> <<TableNames(repository_tables)>>]

\* create_table as the store answers it: a table with no name, or with a name
\* the store holds already, is refused and the store is left as it was.
RepositoryTryCreateTable(tables, table_in) ==
    IF table_in.table_name = "" \/ table_in.table_name \in TableNames(tables)
    THEN tables
    ELSE RepositoryCreateTable(tables, table_in)

\* Home::add_table on a copy of the component: the table is created and the
\* list of tables is read again.
HomeAddTable(home, table_in) ==
    [home EXCEPT !.tables = <<TableNames(RepositoryTryCreateTable(repository_tables, table_in))>>]

\* HomeMessage::InitializeComponent: a task is given a clone of the component.
InitializeComponentMessage ==
    /\ FreeHomeTaskId # 0
    /\ home_tasks' = [home_tasks EXCEPT ![FreeHomeTaskId] =
                         [kind |-> "initialize", home_ui |-> home_ui,
                          create_table_input |-> BTableInDefault, done |-> FALSE]]
    /\ UNCHANGED <<home_ui, create_table_form, dataVars, second, lock_calls,
                   repository_tables, table_calls>>

\* HomeMessage::UpdateTableFilter.
UpdateTableFilter(input) ==
    /\ home_ui' = [home_ui EXCEPT !.table_filter = input]
    /\ UNCHANGED <<home_tasks, create_table_form, dataVars, second, lock_calls,
                   repository_tables, table_calls>>

\* HomeMessage::ShowCreateTableForm.
ShowCreateTableForm ==
    /\ home_ui' = [home_ui EXCEPT !.show_create_table_form = ~home_ui.show_create_table_form]
    /\ UNCHANGED <<home_tasks, create_table_form, dataVars, second, lock_calls,
                   repository_tables, table_calls>>

\* HomeMessage::AddColumn, RemoveColumn, UpdateColumnName, UpdateColumnType
\* and UpdateTableName: each assigns create_table_input; index is 0-based and
\* an index past the last column changes nothing.
HomeFormMessage(table_in) ==
    /\ home_ui' = [home_ui EXCEPT !.create_table_input = table_in]
    /\ UNCHANGED <<home_tasks, create_table_form, dataVars, second, lock_calls,
                   repository_tables, table_calls>>

HomeAddColumn ==
    /\ Len(home_ui.create_table_input.columns) < MaxColumns
    /\ HomeFormMessage([home_ui.create_table_input EXCEPT
                           !.columns = Append(@, BColumnDefault)])

HomeRemoveColumn(index) ==
    HomeFormMessage(IF index < Len(home_ui.create_table_input.columns)
                    THEN [home_ui.create_table_input EXCEPT
                             !.columns = RemoveAt(@, index + 1)]
                    ELSE home_ui.create_table_input)

HomeUpdateColumnName(index, input) ==
    HomeFormMessage(IF index < Len(home_ui.create_table_input.columns)
                    THEN [home_ui.create_table_input EXCEPT
                             !.columns[index + 1].name = input]
                    ELSE home_ui.create_table_input)

HomeUpdateColumnType(index, input) ==
    HomeFormMessage(IF index < Len(home_ui.create_table_input.columns)
                    THEN [home_ui.create_table_input EXCEPT
                             !.columns[index + 1].datatype = input]
                    ELSE home_ui.create_table_input)

HomeUpdateTableName(input) ==
    HomeFormMessage([home_ui.create_table_input EXCEPT !.table_name = input])

\* HomeMessage::SubmitCreateTable: the component is cloned, the form is reset
\* and closed, and a task is given the clone and the input.
SubmitCreateTable ==
    /\ FreeHomeTaskId # 0
    /\ home_tasks' = [home_tasks EXCEPT ![FreeHomeTaskId] =
                         [kind |-> "submit", home_ui |-> home_ui,
                          create_table_input |-> home_ui.create_table_input,
                          done |-> FALSE]]
    /\ home_ui' = [home_ui EXCEPT !.create_table_input = BTableInDefault,
                                  !.show_create_table_form = FALSE]
    /\ UNCHANGED <<create_table_form, dataVars, second, lock_calls,
                   repository_tables, table_calls>>

\* The body of a task: the clone is initialised, or the table is added, and
\* the clone is the argument of the ComponentUpdated message.
HomeTaskRun(i) ==
    /\ home_tasks[i].kind # "none"
    /\ ~home_tasks[i].done
    /\ IF home_tasks[i].kind = "initialize"
       THEN /\ home_tasks' = [home_tasks EXCEPT
                   ![i].home_ui.home = HomeInitializeComponent(home_tasks[i].home_ui.home),
                   ![i].done = TRUE]
            /\ UNCHANGED repository_tables
       ELSE /\ home_tasks' = [home_tasks EXCEPT
                   ![i].home_ui.home = HomeAddTable(home_tasks[i].home_ui.home,
                                                    home_tasks[i].create_table_input),
                   ![i].done = TRUE]
            /\ repository_tables' = RepositoryTryCreateTable(repository_tables,
                                                             home_tasks[i].create_table_input)
    /\ UNCHANGED <<home_ui, create_table_form, dataVars, second, lock_calls, table_calls>>

\* HomeMessage::ComponentUpdated with the clone of task i.
ComponentUpdated(i) ==
    /\ home_tasks[i].kind # "none"
    /\ home_tasks[i].done
    /\ home_ui' = home_tasks[i].home_ui
    /\ home_tasks' = [home_tasks EXCEPT ![i] = NoHomeTask]
    /\ UNCHANGED <<create_table_form, dataVars, second, lock_calls,
                   repository_tables, table_calls>>

\* ------------------------------------------------------- CreateTableFormUI

\* BConstraint::PrimaryKey and BConstraint::ForeignKey(table, column).
PrimaryKey == <<"PrimaryKey">>

ForeignKey(table_name, column_name) == <<"ForeignKey", table_name, column_name>>

\* BColumn::default() of the form: an unnamed TEXT column without constraint.
FormColumnDefault == [name |-> "", datatype |-> "TEXT", constraints |-> <<>>]

\* The tables the form was constructed with, and the (table, column) pairs
\* its foreign key dropdown offers.
FormTablesGeneralInfo == {create_btable_general(UsersTableIn)}

ForeignKeyTargets ==
    {<<t.table_name, t.column_names[k]>> : t \in FormTablesGeneralInfo, k \in 1..Len(ColumnNames)}

\* CreateTableFormUI::new.
CreateTableFormUINew ==
    [create_table_input |-> BTableInDefault,
     active_foreign_key_table |-> <<>>,
     active_foreign_key_column |-> <<>>]

\* The column messages applied to a create_table_input; index is 0-based.
AddColumnTo(table_in) ==
    [table_in EXCEPT !.columns = Append(table_in.columns, FormColumnDefault)]

RemoveColumnFrom(table_in, index) ==
    IF index < Len(table_in.columns)
    THEN [table_in EXCEPT !.columns = RemoveAt(table_in.columns, index + 1)]
    ELSE table_in

UpdateColumnNameOf(table_in, index, input) ==
    IF index < Len(table_in.columns)
    THEN [table_in EXCEPT !.columns[index + 1].name = input]
    ELSE table_in

UpdateColumnTypeOf(table_in, index, input) ==
    IF index < Len(table_in.columns)
    THEN [table_in EXCEPT !.columns[index + 1].datatype = input]
    ELSE table_in

\* The position of the first constraint equal to the given one, 0 if none.
ConstraintPosition(constraints, constraint) ==
    Position({p \in 1..Len(constraints) : constraints[p] = constraint})

\* The toggle of both constraint messages: the first equal constraint is
\* removed, and without one the constraint is pushed.
ToggleConstraint(constraints, constraint) ==
    IF ConstraintPosition(constraints, constraint) # 0
    THEN RemoveAt(constraints, ConstraintPosition(constraints, constraint))
    ELSE Append(constraints, constraint)

\* A variant of the message below that pushes the constraint whether or not
\* the column holds one.
SetPrimaryKeyOf(table_in, index) ==
    IF index < Len(table_in.columns)
    THEN [table_in EXCEPT !.columns[index + 1].constraints = Append(@, PrimaryKey)]
    ELSE table_in

SetOrRemovePrimaryKeyOf(table_in, index) ==
    IF index < Len(table_in.columns)
    THEN [table_in EXCEPT !.columns[index + 1].constraints = ToggleConstraint(@, PrimaryKey)]
    ELSE table_in

AddOrRemoveForeignKeyOf(table_in, index, table_name, column_name) ==
    IF index < Len(table_in.columns)
    THEN [table_in EXCEPT !.columns[index + 1].constraints =
              ToggleConstraint(@, ForeignKey(table_name, column_name))]
    ELSE table_in

\* A message that assigns create_table_input and nothing else.
FormInputMessage(table_in) ==
    /\ create_table_form' = [create_table_form EXCEPT !.create_table_input = table_in]
    /\ UNCHANGED <<home_ui, home_tasks, dataVars, second, lock_calls,
                   repository_tables, table_calls>>

AddColumn ==
    /\ Len(create_table_form.create_table_input.columns) < MaxColumns
    /\ FormInputMessage(AddColumnTo(create_table_form.create_table_input))

RemoveColumn(index) ==
    FormInputMessage(RemoveColumnFrom(create_table_form.create_table_input, index))

UpdateColumnName(index, input) ==
    FormInputMessage(UpdateColumnNameOf(create_table_form.create_table_input, index, input))

UpdateColumnType(index, input) ==
    FormInputMessage(UpdateColumnTypeOf(create_table_form.create_table_input, index, input))

SetOrRemovePrimaryKey(index) ==
    FormInputMessage(SetOrRemovePrimaryKeyOf(create_table_form.create_table_input, index))

AddOrRemoveForeignKey(index, table_name, column_name) ==
    FormInputMessage(AddOrRemoveForeignKeyOf(create_table_form.create_table_input, index,
                                             table_name, column_name))

UpdateTableName(input) ==
    FormInputMessage([create_table_form.create_table_input EXCEPT !.table_name = input])

TableCreated ==
    FormInputMessage(BTableInDefault)

\* ShowOrRemoveCreateTableForm: a form without column is given one.
ShowOrRemoveCreateTableForm ==
    FormInputMessage(IF Len(create_table_form.create_table_input.columns) = 0
                     THEN AddColumnTo(create_table_form.create_table_input)
                     ELSE create_table_form.create_table_input)

\* SubmitCreateTable: the form itself does nothing with the message.
FormSubmitCreateTable ==
    /\ create_table_form' = create_table_form
    /\ UNCHANGED <<home_ui, home_tasks, dataVars, second, lock_calls,
                   repository_tables, table_calls>>

\* The two dropdown toggles applied to the component.
ToggleForeignKeyDropdownOf(form, index) ==
    [form EXCEPT !.active_foreign_key_column = IF @ = <<index>> THEN <<>> ELSE <<index>>]

ToggleForeignKeyTableOf(form, table_name) ==
    [form EXCEPT !.active_foreign_key_table = IF @ = <<table_name>> THEN <<>> ELSE <<table_name>>]

ToggleForeignKeyDropdown(index) ==
    /\ create_table_form' = ToggleForeignKeyDropdownOf(create_table_form, index)
    /\ UNCHANGED <<home_ui, home_tasks, dataVars, second, lock_calls,
                   repository_tables, table_calls>>

ToggleForeignKeyTable(index, table_name) ==
    /\ create_table_form' = ToggleForeignKeyTableOf(create_table_form, table_name)
    /\ UNCHANGED <<home_ui, home_tasks, dataVars, second, lock_calls,
                   repository_tables, table_calls>>

\* ----------------------------------------------------------- specifications

\* The components of the user interface as their constructors leave them.
InitUI ==
    /\ home_ui = HomeUINew
    /\ home_tasks = [i \in HomeTaskIds |-> NoHomeTask]
    /\ create_table_form = CreateTableFormUINew

InitSession ==
    /\ tables_general_info = {create_btable_general(UsersTableIn)}
    /\ repository_tables = {UsersTableIn}
    /\ table_calls = [c \in TableCallers |-> NoTableCall]
    /\ table_inserted_data = NoSnapshot
    /\ table_data_change_events = <<>>
    /\ primary_key_column_names = <<>>
    /\ current_to_initial_row_indexes = EmptyMap
    /\ panicked = FALSE
    /\ modify_call = NoModifyCall
    /\ task = IdleTask
    /\ outcome = NoOutcome
    /\ displayed = [rows |-> <<>>, valid |-> TRUE]
    /\ nedits = 0
    /\ script_pos = 0
    /\ second = IdleSecond
    /\ lock_calls = [p \in LockThreads |-> NoLockCall]
    /\ InitUI

Init ==
    /\ storage \in {Range(InitTable(n)) : n \in {1, MaxRows}}
    /\ InitSession

Next ==
    \/ nedits < MaxEdits /\ \E values \in InsertedRows : Insert(values)
    \/ nedits < MaxEdits /\ \E row_index \in RowIndexes, column_name \in Range(ColumnNames) :
           \E new_value \in NewValues(column_name) :
               Modify(row_index, column_name, new_value)
    \/ nedits < MaxEdits /\ \E row_index \in RowIndexes, column_name \in Range(ColumnNames) :
           \E new_value \in NewValues(column_name) :
               ModifyBegin(row_index, column_name, new_value)
    \/ nedits < MaxEdits /\ \E row_index \in RowIndexes : Delete(row_index)
    \/ ModifyEnd
    \/ TaskStep

Spec == Init /\ [][Next]_vars

\* The session once the table is open (set_table_data has returned): the
\* Snapshot holds the stored rows, the log is empty, the translator is the
\* identity.
Opened ==
    /\ table_inserted_data = SnapshotOf(TableName, RepositoryGetTableDataRows(storage))
    /\ table_data_change_events = <<>>
    /\ primary_key_column_names = CatalogPrimaryKey
    /\ current_to_initial_row_indexes = [k \in 0..(Cardinality(storage) - 1) |-> k]
    /\ displayed = [rows |-> DisplayedOf(RepositoryGetTableDataRows(storage)), valid |-> TRUE]
    /\ outcome = [NoOutcome EXCEPT !.finished = "open", !.returned = UnitValue]

InitEdits ==
    /\ storage \in {Range(InitTable(n)) : n \in {1, MaxRows}}
    /\ Opened
    /\ tables_general_info = {create_btable_general(UsersTableIn)}
    /\ repository_tables = {UsersTableIn}
    /\ table_calls = [c \in TableCallers |-> NoTableCall]
    /\ panicked = FALSE
    /\ modify_call = NoModifyCall
    /\ task = IdleTask
    /\ nedits = 0
    /\ script_pos = OffScript
    /\ second = IdleSecond
    /\ lock_calls = [p \in LockThreads |-> NoLockCall]
    /\ InitUI

\* The edit calls, one after the other, on the Snapshot of an open table.
NextEdits ==
    \/ nedits < MaxCalls /\ \E values \in InsertedRows : Insert(values)
    \/ nedits < MaxCalls /\ \E row_index \in RowIndexes, column_name \in Range(ColumnNames) :
           \E new_value \in NewValues(column_name) :
               Modify(row_index, column_name, new_value)
    \/ nedits < MaxCalls /\ \E row_index \in RowIndexes : Delete(row_index)

SpecEdits == InitEdits /\ [][NextEdits]_vars

\* The session with commits that overlap.
NextCommits ==
    \/ Next
    \/ SecondStep

SpecCommits == Init /\ [][NextCommits]_vars

\* The session, each edit call running from its first lock to its return,
\* while another task calls delete_table for the session's table.
NextCatalog ==
    \/ nedits < MaxCatalogEdits /\ \E values \in InsertedRows : Insert(values)
    \/ nedits < MaxCatalogEdits /\ \E row_index \in RowIndexes, column_name \in Range(ColumnNames) :
           \E new_value \in NewValues(column_name) :
               Modify(row_index, column_name, new_value)
    \/ nedits < MaxCatalogEdits /\ \E row_index \in RowIndexes : Delete(row_index)
    \/ TaskStep
    \/ DeleteTableDelete(1, TableName)
    \/ SetGeneralTablesInfoFetch(1)
    \/ SetGeneralTablesInfoAssign(1)

SpecCatalog == Init /\ [][NextCatalog]_vars

\* The Tables component after initialize_component, with its calls.
SpecTables == Init /\ [][NextTables]_vars

\* The session's calls followed lock by lock.
SpecLocks == Init /\ [][NextLocks]_vars

\* The session of test_update_table_data: the four rows, and the test's calls:
\* each call is the script's next one or another of its calls, after which
\* the session only commits.
InitScenario ==
    /\ storage = Range(ScenarioTable)
    /\ InitSession

ScenarioCall ==
    \E c \in ScenarioCalls :
        \/ c.op = "insert" /\ Insert(c.value)
        \/ c.op = "modify" /\ Modify(c.row_index, c.column_name, c.value)
        \/ c.op = "modify" /\ ModifyBegin(c.row_index, c.column_name, c.value)
        \/ c.op = "delete" /\ Delete(c.row_index)

NextScenario ==
    \/ script_pos # OffScript /\ ScenarioCall
    \/ ModifyEnd
    \/ TaskStep

SpecScenario == InitScenario /\ [][NextScenario]_vars

\* ------------------------------------------------------------------- claims

Log == table_data_change_events

Translator == current_to_initial_row_indexes

\* The primary-key condition of a Snapshot row, written out: the id column
\* with the row's own id.
OriginalKeyOf(row) == <<[column_name |-> "id", data_type |-> "INTEGER", value |-> row[1]]>>

CommitReturned == task.pc = "idle" /\ outcome.finished = "commit"

\* The rows test_update_table_data expects, ordered by id.
ScenarioExpected == <<<<3, "Charlie">>, <<5, "Alice">>, <<6, "">>, <<8, "Daniel">>>>

ScenarioDone ==
    /\ script_pos = Len(Script)
    /\ CommitReturned
    /\ ~outcome.write_failed

\* C1: the calls of the scenario, in order, followed by a commit whose
\* writes succeed, leave exactly the rows [3,Charlie] [5,Alice] [6,""]
\* [8,Daniel] in storage and, ordered by id, in the refreshed Snapshot; and
\* the sixth call, modify(4, name, John), changes neither the log nor the
\* translator.
C1_ScenarioEndsAsExpected ==
    /\ [](ScenarioDone => /\ storage = Range(ScenarioExpected)
                          /\ table_inserted_data.rows = ScenarioExpected)
    /\ [][(script_pos = 5 /\ script_pos' = 6) =>
              /\ Log' = Log
              /\ Translator' = Translator
              /\ ~panicked']_vars

C1_ScenarioCommitted == ScenarioDone

\* No row is both modified and deleted in the batch (the result of such a
\* batch rests on the order the Repository applies it in).
NoRowModifiedAndDeleted(events) ==
    \A k1, k2 \in 1..Len(events) :
        (events[k1].kind = "ModifyRowColumnValue" /\ events[k2].kind = "DeleteRow")
        => events[k1].conditions # events[k2].conditions

\* C2: after a commit whose writes succeed, made when every call since the
\* Snapshot was fetched named a displayed position, storage holds exactly the
\* rows of the reference list the same calls produce, and so does the
\* refreshed Snapshot.
C2_CommitMatchesReference ==
    (/\ task.kind = "commit"
     /\ task.pc \in {"written", "fetched", "snapshot_set", "log_cleared"}
     /\ ~outcome.write_failed
     /\ outcome.reference_valid
     /\ NoRowModifiedAndDeleted(outcome.events))
    => /\ storage = Range(outcome.reference)
       /\ Cardinality(storage) = Len(outcome.reference)
       /\ task.pc \in {"snapshot_set", "log_cleared"}
              => Range(table_inserted_data.rows) = Range(outcome.reference)

\* C3: when a write of the commit failed and no edit was made meanwhile, the
\* log after the commit returned is the log the commit captured.
C3_FailedCommitKeepsLog ==
    (CommitReturned /\ outcome.write_failed /\ outcome.edits = "none")
    => Log = outcome.events

\* C4: a modify or delete at a current index at or past the number of
\* displayed rows does not panic and changes neither the log nor the
\* translator.
C4_OutOfRangeIsNoOp ==
    [][\A row_index \in RowIndexes :
          (/\ table_inserted_data.loaded
           /\ row_index >= DisplayedCount(Log, table_inserted_data)
           /\ \/ Delete(row_index)
              \/ \E column_name \in Range(ColumnNames) :
                     \E new_value \in NewValues(column_name) :
                         Modify(row_index, column_name, new_value))
          => /\ ~panicked'
             /\ Log' = Log
             /\ Translator' = Translator]_vars

\* C5: a delete(i) that appends a DeleteRow leaves, for every current index
\* j > i mapped before, j - 1 mapped to what j mapped to, and the entries
\* below i as they were.
C5_DeleteShiftsTranslator ==
    [][\A row_index \in RowIndexes :
          (Delete(row_index) /\ Len(Log') = Len(Log) + 1)
          => \A j \in DOMAIN Translator :
                 /\ j > row_index => /\ (j - 1) \in DOMAIN Translator'
                                     /\ Translator'[j - 1] = Translator[j]
                 /\ j < row_index => /\ j \in DOMAIN Translator'
                                     /\ Translator'[j] = Translator[j]]_vars

\* The Snapshot the call that is returning read.
SnapshotRead == IF modify_call.active THEN modify_call.snapshot ELSE table_inserted_data

\* The primary-key conditions, from original values, of the rows the
\* translator resolves in the Snapshot that was read.
ResolvedOriginalKeys ==
    {OriginalKeyOf(SnapshotRead.rows[Translator[i] + 1]) :
        i \in {j \in DOMAIN Translator : Translator[j] < Len(SnapshotRead.rows)}}

EventAppended ==
    /\ Len(Log') = Len(Log) + 1
    /\ SubSeq(Log', 1, Len(Log)) = Log
    /\ Log'[Len(Log')].kind \in {"ModifyRowColumnValue", "DeleteRow"}

C7_RevertedRowHasNoModifyEvent ==
    (table_inserted_data.loaded /\ displayed.valid /\ ~panicked)
    => \A p \in 1..Len(displayed.rows) :
           (/\ displayed.rows[p].origin >= 0
            /\ displayed.rows[p].values = table_inserted_data.rows[displayed.rows[p].origin + 1])
           => ~\E k \in 1..Len(Log) :
                  /\ Log[k].kind = "ModifyRowColumnValue"
                  /\ Log[k].conditions = OriginalKeyOf(displayed.rows[p].values)

\* C8: in every state with a Snapshot, insert(values) followed at once by
\* delete at the position the new row is displayed at leaves the log and the
\* translator as they were before the insert.
C8_InsertThenDeleteRestores ==
    (table_inserted_data.loaded /\ ~panicked)
    => \A values \in InsertedRows :
           LET ins == add_insert_row_event(Log, table_inserted_data, values)
               position == DisplayedCount(Log, table_inserted_data)
           IN  \A wraps \in WrapChoices(ins.events, table_inserted_data) :
                   LET del == add_delete_row_event(ins.events, table_inserted_data,
                                                   primary_key_column_names, Translator,
                                                   position, wraps)
                   IN  /\ ~del.panic
                       /\ del.events = Log
                       /\ del.indexes = Translator

\* C9: no two events among the ModifyRowColumnValue and DeleteRow events of
\* the log carry the same conditions.
C9_OneEventPerCondition ==
    \A k1, k2 \in 1..Len(Log) :
        (/\ k1 # k2
         /\ Log[k1].kind \in {"ModifyRowColumnValue", "DeleteRow"}
         /\ Log[k2].kind \in {"ModifyRowColumnValue", "DeleteRow"})
        => Log[k1].conditions # Log[k2].conditions

\* C10: the event appended by the one edit that returned while a commit was
\* in flight is in the log when that commit has returned.
C10_EditDuringCommitSurvives ==
    (CommitReturned /\ outcome.edits = "one" /\ outcome.added # <<>>)
    => outcome.added[1] \in Range(Log)

\* C11: two commits in flight at once have never both sent the same captured
\* events (a log that is not empty) to the Repository.
C11_CapturedEventsSentOnce ==
    ~(/\ task.kind = "commit"
      /\ task.pc \in {"written", "fetched", "snapshot_set", "log_cleared"}
      /\ second.pc \in {"written", "fetched"}
      /\ task.events # <<>>
      /\ second.events = task.events)

\* C12: no call that holds the translator's lock asks for the Snapshot's lock
\* or the log's lock.
C12_TranslatorLockedLast ==
    \A p \in LockThreads :
        (/\ lock_calls[p].todo # <<>>
         /\ "translator" \in lock_calls[p].held
         /\ Head(lock_calls[p].todo).step = "lock")
        => Head(lock_calls[p].todo).name \notin {"snapshot", "log"}

\* An open or a commit has returned and no edit has returned since the open
\* was requested or the commit captured the log.
RefreshedUndisturbed ==
    /\ task.pc = "idle"
    /\ outcome.finished \in {"open", "commit"}
    /\ outcome.edits = "none"
    /\ ~panicked

\* C13: when an open, or a commit whose writes succeeded, has returned with no
\* edit meanwhile, the log is empty and the translator is the identity on
\* the positions of the rows of the Snapshot.
C13_RefreshResetsLogAndTranslator ==
    (RefreshedUndisturbed /\ ~outcome.write_failed)
    => /\ table_inserted_data.loaded
       /\ Log = <<>>
       /\ Translator = [k \in 0..(Len(table_inserted_data.rows) - 1) |-> k]

\* A commit that captured a log with a DeleteRow (so the translator had been
\* shifted) has returned undisturbed.
C13_CommitAfterDeleteReturned ==
    /\ RefreshedUndisturbed
    /\ outcome.finished = "commit"
    /\ ~outcome.write_failed
    /\ \E k \in 1..Len(outcome.events) : outcome.events[k].kind = "DeleteRow"

\* C14: a commit one of whose writes failed hands a WriteFailed outcome back
\* to its caller.
C14_FailedCommitReportsFailure ==
    (CommitReturned /\ outcome.write_failed) => outcome.returned = "WriteFailed"

\* The initial indexes of the Snapshot rows with no pending DeleteRow, in
\* Snapshot order.
SurvivingInitialIndexes ==
    SelectSeq([k \in 1..Len(table_inserted_data.rows) |-> k - 1],
              LAMBDA i : OriginalKeyOf(table_inserted_data.rows[i + 1])
                             \notin DeletedConditions(Log))

\* C15: with a Snapshot loaded and no call in progress, the translator maps
\* exactly the positions 0..(surviving rows - 1), position k to the initial
\* index of the k-th Snapshot row that has no pending DeleteRow.
C15_TranslatorListsSurvivingRows ==
    (table_inserted_data.loaded /\ ~panicked /\ task.pc = "idle" /\ ~modify_call.active)
    => Translator = [k \in 0..(Len(SurvivingInitialIndexes) - 1) |->
                        SurvivingInitialIndexes[k + 1]]

WithCell(values, column_name, new_value) ==
    [values EXCEPT ![ColumnIndex(column_name)] = new_value]

\* insert(values) in the present state and then modify(row_index, ...) of
\* every column overwrite the value in the new InsertRow, the last event of
\* the log, and change nothing else.
ModifyReachesNewInsert(row_index) ==
    \A values \in InsertedRows, column_name \in Range(ColumnNames) :
        \A new_value \in NewValues(column_name) :
            LET ins == add_insert_row_event(Log, table_inserted_data, values)
            IN  \A wraps \in WrapChoices(ins.events, table_inserted_data) :
                    LET mod == add_modify_row_column_value_event(
                                   ins.events, table_inserted_data, primary_key_column_names,
                                   Translator, row_index, column_name, new_value, wraps)
                    IN  /\ ~mod.panic
                        /\ mod.events = Append(Log, InsertRow(WithCell(values, column_name,
                                                                       new_value)))

EditIndexes == 0..(MaxRows + MaxCalls)

\* modify(row_index, ...) in the present state, for every column and value,
\* overwrites that column's value in the (k+1)-th InsertRow event of the log
\* and leaves the length of the log and every other event as they were: no
\* panic, no new event.
ModifyOverwritesInsert(row_index, k) ==
    LET target == InsertEventPositions(Log)[k + 1]
    IN  \A column_name \in Range(ColumnNames) :
            \A new_value \in NewValues(column_name) :
                \A wraps \in WrapChoices(Log, table_inserted_data) :
                    LET mod == add_modify_row_column_value_event(
                                   Log, table_inserted_data, primary_key_column_names,
                                   Translator, row_index, column_name, new_value, wraps)
                    IN  /\ ~mod.panic
                        /\ mod.events = [Log EXCEPT ![target].values =
                                             WithCell(Log[target].values, column_name, new_value)]

\* C18: with D DeleteRow events in the log and k = i - (rows.len() - D),
\* whenever 0 <= k < number of InsertRow events, modify(i, column, v)
\* overwrites the column's value in the k-th InsertRow event and changes
\* nothing else of the log; no ModifyRowColumnValue event is created.
C18_ModifyAtInsertIndexOverwritesInsert ==
    (table_inserted_data.loaded /\ ~panicked)
    => \A row_index \in EditIndexes :
           LET k == row_index - (Len(table_inserted_data.rows) - CountKind(Log, "DeleteRow"))
           IN  (0 <= k /\ k < CountKind(Log, "InsertRow")) => ModifyOverwritesInsert(row_index, k)

\* The same where the subtraction rows.len() - D does not underflow.
C18_WithoutUnderflow ==
    CountKind(Log, "DeleteRow") <= Len(table_inserted_data.rows)
    => C18_ModifyAtInsertIndexOverwritesInsert


\* The values a cell of the column can be given: the new values of the edits
\* and the values the Snapshot holds in that column.
CellValues(column_name) ==
    NewValues(column_name)
        \cup {table_inserted_data.rows[k][ColumnIndex(column_name)] :
                 k \in 1..Len(table_inserted_data.rows)}

\* The log holds a ModifyRowColumnValue event with these conditions and a
\* pending value for the column.
PendingChange(events, conditions, column_name) ==
    \E k \in 1..Len(events) :
        /\ events[k].kind = "ModifyRowColumnValue"
        /\ events[k].conditions = conditions
        /\ column_name \in DOMAIN events[k].column_values

\* The current index addresses a Snapshot row: it is below the inserts and
\* the translator maps it to a row of the Snapshot.
AddressesSnapshotRow(row_index) ==
    /\ row_index \in DOMAIN Translator
    /\ Translator[row_index] < Len(table_inserted_data.rows)
    /\ CountKind(Log, "DeleteRow") <= Len(table_inserted_data.rows)
    /\ row_index < Len(table_inserted_data.rows) - CountKind(Log, "DeleteRow")

\* modify(row_index, column_name, new_value) in the present state removes the
\* pending change of the column exactly when new_value is the Snapshot's
\* value of the column in the row at initial index translator[row_index].
CancelsIffOriginal(row_index, column_name, new_value) ==
    LET row == table_inserted_data.rows[Translator[row_index] + 1]
        conditions == PrimaryKeyConditionsOfRow(row, primary_key_column_names)
        mod == add_modify_row_column_value_event(
                   Log, table_inserted_data, primary_key_column_names, Translator,
                   row_index, column_name, new_value, TRUE)
    IN  PendingChange(Log, conditions, column_name)
        => /\ ~mod.panic
           /\ ~PendingChange(mod.events, conditions, column_name)
                  <=> (new_value = row[ColumnIndex(column_name)])

\* C19: when modify(i, c, v) targets a Snapshot row that already has a
\* ModifyRowColumnValue event with a pending change for c, the pending change
\* is removed if and only if v equals the Snapshot's value of c in the row at
\* initial index translator[i], also after deletes have shifted the current
\* indices.
C19_CancelIffOriginalOfSameRow ==
    (table_inserted_data.loaded /\ ~panicked)
    => \A row_index \in RowIndexes :
           AddressesSnapshotRow(row_index)
           => \A column_name \in Range(ColumnNames) :
                  \A new_value \in CellValues(column_name) :
                      CancelsIffOriginal(row_index, column_name, new_value)

\* The same for the rows whose current index is their initial index.
C19_CancelAtUnshiftedIndex ==
    (table_inserted_data.loaded /\ ~panicked)
    => \A row_index \in RowIndexes :
           (AddressesSnapshotRow(row_index) /\ Translator[row_index] = row_index)
           => \A column_name \in Range(ColumnNames) :
                  \A new_value \in CellValues(column_name) :
                      CancelsIffOriginal(row_index, column_name, new_value)

\* The positions of the ModifyRowColumnValue events with these conditions.
ModifyEventsOf(events, conditions) ==
    {k \in 1..Len(events) : /\ events[k].kind = "ModifyRowColumnValue"
                            /\ events[k].conditions = conditions}

\* The pending values of the row with these conditions: those of its first
\* ModifyRowColumnValue event, none when it has no event.
PendingValues(events, conditions) ==
    IF ModifyEventsOf(events, conditions) = {} THEN EmptyMap
    ELSE events[Position(ModifyEventsOf(events, conditions))].column_values

\* modify(row_index, column_name, new_value) in the present state leaves
\* exactly one ModifyRowColumnValue event for the row at initial index
\* translator[row_index], with new_value pending for the column and the other
\* columns' pending values as before; a row without an event gets a new event
\* at the end of the log with the column as its only entry.
LeavesOneEventWithValue(row_index, column_name, new_value) ==
    LET row == table_inserted_data.rows[Translator[row_index] + 1]
        conditions == PrimaryKeyConditionsOfRow(row, primary_key_column_names)
        before == PendingValues(Log, conditions)
        mod == add_modify_row_column_value_event(
                   Log, table_inserted_data, primary_key_column_names, Translator,
                   row_index, column_name, new_value, TRUE)
        after == PendingValues(mod.events, conditions)
    IN  /\ ~mod.panic
        /\ Cardinality(ModifyEventsOf(mod.events, conditions)) = 1
        /\ column_name \in DOMAIN after
        /\ after[column_name][2] = new_value
        /\ \A other \in Range(ColumnNames) \ {column_name} :
               /\ other \in DOMAIN after <=> other \in DOMAIN before
               /\ other \in DOMAIN before => after[other] = before[other]
        /\ ModifyEventsOf(Log, conditions) = {}
               => mod.events = Append(Log, ModifyRowColumnValue(conditions,
                                    MapInsert(EmptyMap, column_name,
                                              <<DataTypes[ColumnIndex(column_name)], new_value>>)))

\* C20: after modify(i, c, v) on an in-range Snapshot row, v different from
\* the row's original value of c, the log holds exactly one
\* ModifyRowColumnValue event for the row, with c mapped to v and the row's
\* other pending values unchanged; a row that had no event gets a new event
\* with c as its only entry.
C20_ModifyLeavesOneEventWithValue ==
    (table_inserted_data.loaded /\ ~panicked)
    => \A row_index \in RowIndexes :
           AddressesSnapshotRow(row_index)
           => \A column_name \in Range(ColumnNames) :
                  \A new_value \in CellValues(column_name) :
                      new_value # table_inserted_data.rows[Translator[row_index] + 1][
                                      ColumnIndex(column_name)]
                      => LeavesOneEventWithValue(row_index, column_name, new_value)

\* The same for the rows whose current index is their initial index.
C20_ModifyAtUnshiftedIndex ==
    (table_inserted_data.loaded /\ ~panicked)
    => \A row_index \in RowIndexes :
           (AddressesSnapshotRow(row_index) /\ Translator[row_index] = row_index)
           => \A column_name \in Range(ColumnNames) :
                  \A new_value \in CellValues(column_name) :
                      new_value # table_inserted_data.rows[Translator[row_index] + 1][
                                      ColumnIndex(column_name)]
                      => LeavesOneEventWithValue(row_index, column_name, new_value)

\* delete(row_index) in the present state appends one DeleteRow event whose
\* conditions are the original primary-key values of the Snapshot row
\* displayed at row_index, and changes nothing else of the log.
DeleteAppendsKeyOfDisplayedRow(row_index) ==
    LET row == table_inserted_data.rows[SurvivingInitialIndexes[row_index + 1] + 1]
    IN  \A wraps \in WrapChoices(Log, table_inserted_data) :
            LET del == add_delete_row_event(Log, table_inserted_data, primary_key_column_names,
                                            Translator, row_index, wraps)
            IN  /\ ~del.panic
                /\ del.events = Append(Log, DeleteRow(OriginalKeyOf(row)))

\* C21: delete(i) at an in-range current index of a Snapshot-origin row
\* appends exactly one DeleteRow event whose conditions are the original
\* primary-key values of the row displayed at position i, the i-th Snapshot
\* row without a pending DeleteRow, in every reachable state.
C21_DeleteKeyedByDisplayedRow ==
    (table_inserted_data.loaded /\ ~panicked)
    => \A row_index \in RowIndexes :
           row_index < Len(SurvivingInitialIndexes)
           => DeleteAppendsKeyOfDisplayedRow(row_index)

\* The same in the states whose log holds no DeleteRow event.
C21_FirstDelete ==
    CountKind(Log, "DeleteRow") = 0 => C21_DeleteKeyedByDisplayedRow

\* C22: a step in which an edit call returns changes neither the Snapshot,
\* nor the primary-key column names, nor the stored rows; it changes the
\* Index Translator only when it appends a DeleteRow event, so insert, modify
\* and a delete that cancels an uncommitted insert leave the translator as it
\* was.
C22_EditsKeepSnapshotAndTranslator ==
    [][nedits' = nedits + 1
       => /\ table_inserted_data' = table_inserted_data
          /\ primary_key_column_names' = primary_key_column_names
          /\ storage' = storage
          /\ Translator' # Translator
                 => /\ Len(Log') = Len(Log) + 1
                    /\ Log'[Len(Log')].kind = "DeleteRow"]_vars

\* An insert, a modify of the inserted row and a delete of it have returned:
\* the log is empty again and the translator is the identity of the open.
C22_InsertModifiedAndCancelled ==
    /\ table_inserted_data.loaded
    /\ ~panicked
    /\ nedits = 3
    /\ Log = <<>>
    /\ displayed.valid
    /\ displayed.rows = DisplayedOf(table_inserted_data.rows)
    /\ Translator = [k \in 0..(Len(table_inserted_data.rows) - 1) |-> k]

\* C23: the commit captures the log and the Snapshot's table name as they
\* are at that moment, and what its write applies to the stored rows is the
\* captured log, whatever edits returned since the capture; the refresh that
\* follows names the captured table.
C23_CommitSendsCapturedLog ==
    [][/\ (task.pc = "idle" /\ task'.pc = "captured")
          => /\ task'.events = Log
             /\ task'.table_name = table_inserted_data.table_name
       /\ (task.pc = "captured" /\ task'.pc = "written")
          => /\ task'.table_name = task.table_name
             /\ \E fail_at \in FailureChoices(outcome.events) :
                    /\ storage' = RepositoryUpdateTableData(storage, outcome.events,
                                                            fail_at).rows
                    /\ outcome'.write_failed = RepositoryUpdateTableData(
                                                   storage, outcome.events, fail_at).failed]_vars

\* The commit has written after an edit that returned since the capture
\* appended an event: the write applied the captured events, which are no
\* longer the log.
C23_WrittenAfterLaterEdit ==
    /\ task.pc = "written"
    /\ task.kind = "commit"
    /\ outcome.events # <<>>
    /\ outcome.added # <<>>
    /\ ~outcome.write_failed
    /\ Log # outcome.events

\* The locks of the session's edit state.
EditLocks == {"snapshot", "log", "translator", "pk"}

\* C24: while a call of the Repository made by a commit (the write of the
\* events, the fetch of the primary-key names, the fetch of the rows) is
\* executing, the commit holds none of the locks of the Snapshot, the log,
\* the translator and the primary-key names.
C24_NoEditLockHeldDuringRepositoryCall ==
    \A p \in LockThreads :
        (/\ lock_calls[p].op = "commit"
         /\ lock_calls[p].todo # <<>>
         /\ Head(lock_calls[p].todo).step = "io")
        => lock_calls[p].held \cap EditLocks = {}

\* The commit's fetch of the rows is executing while a delete holds the
\* Snapshot's and the log's locks.
C24_DeleteDuringFetch ==
    /\ lock_calls["async"].op = "commit"
    /\ lock_calls["async"].todo # <<>>
    /\ Head(lock_calls["async"].todo) = IoStep("get_table_data_rows")
    /\ lock_calls["ui"].op = "delete_row"
    /\ {"snapshot", "log"} \subseteq lock_calls["ui"].held

\* Thread p asks for a lock that thread q holds.
WaitsFor(p, q) ==
    /\ lock_calls[p].todo # <<>>
    /\ Head(lock_calls[p].todo).step = "lock"
    /\ Head(lock_calls[p].todo).name \in lock_calls[q].held

\* C25: with a modify or a delete running while open_table or the refresh of
\* a commit runs, there is no state in which each of the two holds a lock the
\* other is waiting for.
C25_EditAndRefreshNeverBlockEachOther ==
    (/\ lock_calls["ui"].op \in {"modify_no_row", "modify_merged", "modify_new_event",
                                 "delete_no_row", "delete_row"}
     /\ lock_calls["async"].op \in {"open", "commit"})
    => ~(WaitsFor("ui", "async") /\ WaitsFor("async", "ui"))

\* C26: a modify that read the Snapshot before a refresh replaced it and
\* locks the log after the refresh has installed the new Snapshot, log and
\* translator does not panic on a translator entry that the Snapshot it read
\* has no row for, and an event it appends to the new log has the
\* primary-key condition of the new Snapshot's row at translator[row_index],
\* not one built from the replaced Snapshot.
C26_ModifyUsesSnapshotOfItsLog ==
    [][(/\ modify_call.active
        /\ ~modify_call'.active
        /\ task.pc = "idle"
        /\ modify_call.snapshot # table_inserted_data)
       => /\ ~panicked'
          /\ Len(Log') = Len(Log) + 1
                 => Log'[Len(Log')].conditions =
                        get_primary_key_conditions(modify_call.row_index, table_inserted_data,
                                                   primary_key_column_names,
                                                   Translator).conditions]_vars

\* The same for a modify whose Snapshot was not replaced before it returned.
C26_ModifyOnUnreplacedSnapshot ==
    [][(/\ modify_call.active
        /\ ~modify_call'.active
        /\ modify_call.snapshot = table_inserted_data)
       => \E wraps \in WrapChoices(Log, table_inserted_data) :
              LET r == add_modify_row_column_value_event(
                           Log, table_inserted_data, primary_key_column_names, Translator,
                           modify_call.row_index, modify_call.column_name,
                           modify_call.new_value, wraps)
              IN  /\ Log' = r.events
                  /\ panicked' = r.panic]_vars

\* modify(row_index, ...) in the present state, for every column and value,
\* leaves the pending values of every Snapshot row other than the one
\* displayed at row_index as they are.
ModifyKeepsOtherRows(row_index) ==
    \A column_name \in Range(ColumnNames) :
        \A new_value \in CellValues(column_name) :
            LET mod == add_modify_row_column_value_event(
                           Log, table_inserted_data, primary_key_column_names, Translator,
                           row_index, column_name, new_value, TRUE)
            IN  \A k \in 1..Len(table_inserted_data.rows) :
                    k - 1 # SurvivingInitialIndexes[row_index + 1]
                    => PendingValues(mod.events, OriginalKeyOf(table_inserted_data.rows[k]))
                           = PendingValues(Log, OriginalKeyOf(table_inserted_data.rows[k]))

\* C27: the primary-key values being unique, a modify at an in-range current
\* index of a Snapshot-origin row leaves the pending changes of every other
\* row unchanged, so that two modify calls at different indices never write
\* to the same ModifyRowColumnValue event.
C27_ModifyWritesOwnRowOnly ==
    (/\ table_inserted_data.loaded
     /\ ~panicked
     /\ ~InsertIndexUnderflows(Log, table_inserted_data))
    => \A row_index \in RowIndexes :
           row_index < Len(SurvivingInitialIndexes) => ModifyKeepsOtherRows(row_index)

\* The same in the states whose log holds no DeleteRow event.
C27_WithoutDelete ==
    CountKind(Log, "DeleteRow") = 0 => C27_ModifyWritesOwnRowOnly

\* C28: the log never holds two DeleteRow events with equal conditions.
C28_NoRowDeletedTwice ==
    \A j, k \in 1..Len(Log) :
        (Log[j].kind = "DeleteRow" /\ Log[k].kind = "DeleteRow" /\ Log[j].conditions = Log[k].conditions)
        => j = k

\* C29: the number of DeleteRow events in the log is at most the number of
\* rows of the Snapshot, so that rows.len() - D does not underflow.
C29_DeletesAtMostRows ==
    table_inserted_data.loaded
    => CountKind(Log, "DeleteRow") <= Len(table_inserted_data.rows)

\* C30: an insert, a modify or a delete that returns while no Snapshot is
\* loaded does not panic and leaves the log and the translator unchanged.
C30_EditsWithoutSnapshotAreNoOps ==
    [][(nedits' = nedits + 1 /\ ~table_inserted_data.loaded)
       => /\ ~panicked'
          /\ Log' = Log
          /\ Translator' = Translator]_vars

\* C31: with no Snapshot loaded and no call in flight, a step that is neither
\* an edit nor an open, that is a commit request, starts no task (no call of
\* the Repository follows) and leaves the stored rows, the Snapshot, the log,
\* the translator and the primary-key column names unchanged.
C31_CommitWithoutSnapshotDoesNothing ==
    [][(/\ ~table_inserted_data.loaded
        /\ task.pc = "idle"
        /\ nedits' = nedits
        /\ task'.kind # "open")
       => /\ task' = task
          /\ storage' = storage
          /\ table_inserted_data' = table_inserted_data
          /\ Log' = Log
          /\ Translator' = Translator
          /\ primary_key_column_names' = primary_key_column_names]_vars

\* A commit was requested before any open or edit and has returned.
C31_CommitRequestedBeforeOpen ==
    /\ ~table_inserted_data.loaded
    /\ ~panicked
    /\ nedits = 0
    /\ task = IdleTask
    /\ outcome = NoOutcome
    /\ script_pos = OffScript

\* C32: a step in which set_table_data, called by open_table or at the end
\* of a commit, finds its table missing from tables_general_info fetches
\* nothing and leaves the stored rows, the Snapshot, the log, the translator
\* and the primary-key column names unchanged: the call returns at once.
C32_RefreshOfUnlistedTableDoesNothing ==
    [][(\/ /\ task.pc = "written"
           /\ task'.pc = "idle"
           /\ ~Listed(task.table_name)
        \/ /\ task.pc = "idle"
           /\ task'.pc = "idle"
           /\ nedits' = nedits
           /\ outcome' # outcome
           /\ ~Listed(TableName))
       => /\ task' = IdleTask
          /\ panicked' = panicked
          /\ storage' = storage
          /\ table_inserted_data' = table_inserted_data
          /\ Log' = Log
          /\ Translator' = Translator
          /\ primary_key_column_names' = primary_key_column_names]_vars

\* A commit has returned for a table that delete_table had removed from
\* tables_general_info, and the log still holds the events it captured.
C32_CommitOfUnlistedTableReturned ==
    /\ task.pc = "idle"
    /\ outcome.finished = "commit"
    /\ ~panicked
    /\ ~Listed(TableName)
    /\ table_inserted_data.loaded
    /\ Log # <<>>
    /\ Log = outcome.events

\* C33: whenever every call of add_table and delete_table has returned,
\* however the calls were interleaved, tables_general_info is the list of
\* the tables the store holds.
C33_TablesInfoIsFinalRepositoryList ==
    (\A c \in TableCallers : table_calls[c].pc = "idle")
    => tables_general_info = RepositoryGetGeneralTablesInfo(repository_tables)

\* Two calls overlapped: the first returned with a list fetched before the
\* second changed the store, and the second, the last call in progress, holds
\* the list it fetched after both changes.
C33_LastOfTwoOverlappingCalls ==
    /\ table_calls[1].pc = "idle"
    /\ table_calls[2].pc = "fetched"
    /\ ~table_calls[2].alone
    /\ tables_general_info # RepositoryGetGeneralTablesInfo(repository_tables)
    /\ table_calls[2].fetched = RepositoryGetGeneralTablesInfo(repository_tables)

\* The messages of HomeUI and the tasks they start.
NextHome ==
    \/ InitializeComponentMessage
    \/ \E input \in TableFilterInputs : UpdateTableFilter(input)
    \/ ShowCreateTableForm
    \/ HomeAddColumn
    \/ \E index \in ColumnIndexes : HomeRemoveColumn(index)
    \/ \E index \in ColumnIndexes : \E input \in ColumnNameInputs :
           HomeUpdateColumnName(index, input)
    \/ \E index \in ColumnIndexes : \E input \in ColumnTypeInputs :
           HomeUpdateColumnType(index, input)
    \/ \E input \in TableNameInputs : HomeUpdateTableName(input)
    \/ SubmitCreateTable
    \/ \E i \in HomeTaskIds : HomeTaskRun(i)
    \/ \E i \in HomeTaskIds : ComponentUpdated(i)

SpecHome == Init /\ [][NextHome]_vars

\* The state of the user interface right after the message that started the
\* task was handled.
UIStateAfterDispatch(home_task) ==
    IF home_task.kind = "submit"
    THEN [UIState(home_task.home_ui) EXCEPT !.create_table_input = BTableInDefault,
                                            !.show_create_table_form = FALSE]
    ELSE UIState(home_task.home_ui)

\* C34: handling the ComponentUpdated message of a task leaves the state of
\* the user interface (filter, form flag, form input) as it was before the
\* message, so nothing changed after the dispatch is reverted; and when the
\* task is that of SubmitCreateTable and no other message came in between,
\* the form input is then the default and the form is closed.
C34_ComponentUpdatedKeepsUIState ==
    [][\A i \in HomeTaskIds :
          (/\ home_tasks[i].kind # "none"
           /\ home_tasks[i].done
           /\ home_tasks'[i].kind = "none")
          => /\ UIState(home_ui') = UIState(home_ui)
             /\ (/\ home_tasks[i].kind = "submit"
                 /\ UIState(home_ui) = UIStateAfterDispatch(home_tasks[i]))
                => /\ home_ui'.create_table_input = BTableInDefault
                   /\ ~home_ui'.show_create_table_form]_vars

\* C34, the submit alone: when the ComponentUpdated of a SubmitCreateTable is
\* handled with no other message in between, the form input is the default.
C34_SubmittedFormIsReset ==
    [][\A i \in HomeTaskIds :
          (/\ home_tasks[i].kind = "submit"
           /\ home_tasks[i].done
           /\ home_tasks'[i].kind = "none"
           /\ UIState(home_ui) = UIStateAfterDispatch(home_tasks[i]))
          => home_ui'.create_table_input = BTableInDefault]_vars

\* The messages of CreateTableFormUI.
NextForm ==
    \/ AddColumn
    \/ \E index \in ColumnIndexes : RemoveColumn(index)
    \/ \E index \in ColumnIndexes : \E input \in ColumnNameInputs :
           UpdateColumnName(index, input)
    \/ \E index \in ColumnIndexes : \E input \in ColumnTypeInputs :
           UpdateColumnType(index, input)
    \/ \E index \in ColumnIndexes : SetOrRemovePrimaryKey(index)
    \/ \E index \in ColumnIndexes : \E target \in ForeignKeyTargets :
           AddOrRemoveForeignKey(index, target[1], target[2])
    \/ \E input \in TableNameInputs : UpdateTableName(input)
    \/ TableCreated
    \/ FormSubmitCreateTable
    \/ ShowOrRemoveCreateTableForm
    \/ \E index \in ColumnIndexes : ToggleForeignKeyDropdown(index)
    \/ \E index \in ColumnIndexes : \E t \in FormTablesGeneralInfo :
           ToggleForeignKeyTable(index, t.table_name)

SpecForm == Init /\ [][NextForm]_vars

\* No column holds the same constraint twice: at most one PrimaryKey and at
\* most one ForeignKey of each (table, column) pair.
NoDuplicateConstraints(table_in) ==
    \A k \in 1..Len(table_in.columns) :
        \A p, q \in 1..Len(table_in.columns[k].constraints) :
            table_in.columns[k].constraints[p] = table_in.columns[k].constraints[q] => p = q

\* The column messages with the given index leave the input as it is.
ColumnMessagesChangeNothing(table_in, index) ==
    /\ RemoveColumnFrom(table_in, index) = table_in
    /\ \A input \in ColumnNameInputs : UpdateColumnNameOf(table_in, index, input) = table_in
    /\ \A input \in ColumnTypeInputs : UpdateColumnTypeOf(table_in, index, input) = table_in
    /\ SetOrRemovePrimaryKeyOf(table_in, index) = table_in
    /\ \A target \in ForeignKeyTargets :
           AddOrRemoveForeignKeyOf(table_in, index, target[1], target[2]) = table_in

\* The dropdown messages with the given index leave the component as it is.
DropdownMessagesChangeNothing(form, index) ==
    /\ ToggleForeignKeyDropdownOf(form, index) = form
    /\ \A t \in FormTablesGeneralInfo : ToggleForeignKeyTableOf(form, t.table_name) = form

\* The constraints with the PrimaryKey, if they hold one, moved to the end.
PrimaryKeyLast(constraints) ==
    IF ConstraintPosition(constraints, PrimaryKey) = 0
    THEN constraints
    ELSE Append(RemoveAt(constraints, ConstraintPosition(constraints, PrimaryKey)), PrimaryKey)

\* The input with PrimaryKeyLast applied to the constraints of column index.
WithPrimaryKeyLast(table_in, index) ==
    IF index < Len(table_in.columns)
    THEN [table_in EXCEPT !.columns[index + 1].constraints = PrimaryKeyLast(@)]
    ELSE table_in

\* C35 as stated: no column ever holds a constraint twice; SetOrRemovePrimaryKey
\* applied twice gives back the input with the same list of constraints; and
\* every message with an index past the last column, the dropdown toggles
\* included, changes nothing.
C35_TogglesRestoreConstraintList ==
    /\ NoDuplicateConstraints(create_table_form.create_table_input)
    /\ \A index \in ColumnIndexes :
           /\ SetOrRemovePrimaryKeyOf(
                  SetOrRemovePrimaryKeyOf(create_table_form.create_table_input, index),
                  index) = create_table_form.create_table_input
           /\ index >= Len(create_table_form.create_table_input.columns)
              => /\ ColumnMessagesChangeNothing(create_table_form.create_table_input, index)
                 /\ DropdownMessagesChangeNothing(create_table_form, index)

\* C35, amended: no column ever holds a constraint twice; SetOrRemovePrimaryKey
\* applied twice gives back the same constraints with the PrimaryKey, if the
\* column holds one, moved to the end of the list; and the column messages
\* (RemoveColumn, UpdateColumnName, UpdateColumnType, SetOrRemovePrimaryKey,
\* AddOrRemoveForeignKey) with an index past the last column change nothing.
C35_TogglesRestoreConstraintsUpToOrder ==
    /\ NoDuplicateConstraints(create_table_form.create_table_input)
    /\ \A index \in ColumnIndexes :
           /\ SetOrRemovePrimaryKeyOf(
                  SetOrRemovePrimaryKeyOf(create_table_form.create_table_input, index),
                  index) = WithPrimaryKeyLast(create_table_form.create_table_input, index)
           /\ index >= Len(create_table_form.create_table_input.columns)
              => ColumnMessagesChangeNothing(create_table_form.create_table_input, index)

\* C35, the case: a column that holds a PrimaryKey followed by a ForeignKey,
\* whose list two toggles reorder, while the dropdown of no column is open.
C35_PrimaryKeyBeforeForeignKey ==
    /\ create_table_form.active_foreign_key_column = <<>>
    /\ \E k \in 1..Len(create_table_form.create_table_input.columns) :
           /\ Len(create_table_form.create_table_input.columns[k].constraints) >= 2
           /\ create_table_form.create_table_input.columns[k].constraints[1] = PrimaryKey
           /\ SetOrRemovePrimaryKeyOf(
                  SetOrRemovePrimaryKeyOf(create_table_form.create_table_input, k - 1),
                  k - 1) # create_table_form.create_table_input

\* C35, the parts that hold as stated: the invariant, and the double toggle
\* read on the constraints as a set.
C35_SameConstraintsAsSet ==
    /\ NoDuplicateConstraints(create_table_form.create_table_input)
    /\ \A k \in 1..Len(create_table_form.create_table_input.columns) :
           Range(SetOrRemovePrimaryKeyOf(
                     SetOrRemovePrimaryKeyOf(create_table_form.create_table_input, k - 1),
                     k - 1).columns[k].constraints)
               = Range(create_table_form.create_table_input.columns[k].constraints)

\* C35, the double toggle alone as stated: SetOrRemovePrimaryKey applied
\* twice gives back the same list of constraints.
C35_DoubleToggleRestoresList ==
    \A index \in ColumnIndexes :
        SetOrRemovePrimaryKeyOf(
            SetOrRemovePrimaryKeyOf(create_table_form.create_table_input, index),
            index) = create_table_form.create_table_input

\* An open that was followed by no edit leaves the session as InitEdits
\* starts it.
OpenedAsInitEdits ==
    (task.pc = "idle" /\ outcome.finished = "open" /\ nedits = 0 /\ ~modify_call.active)
    => Opened

====
